---- MODULE Spec2Model ----
(***************************************************************************)
(* Xilinx SD-FEC driver (drivers/misc/xilinx_sdfec.c): the device state    *)
(* machine, the write-protection gate, the ioctl dispatch gate and the     *)
(* threaded interrupt handler, over a register file that keeps what the    *)
(* driver writes to it.                                                    *)
(*                                                                         *)
(* One control thread issues ioctls.  An ioctl takes two steps: the        *)
(* dispatch gate of xsdfec_dev_ioctl (Ioctl), then the body of the command *)
(* (one action per command).  The interrupt thread (xsdfec_irq_thread) is  *)
(* one step and may run between the two, as the driver takes no lock.      *)
(*                                                                         *)
(* Six specifications share the variables and the definitions:            *)
(*   Spec      every command, the interrupt thread and the hardware;       *)
(*   LdpcSpec  the commands that program and read back LDPC codes, with    *)
(*             more descriptors than Spec has, on a device that can be     *)
(*             started (which raises the write protection);                *)
(*   OpenSpec  several processes opening and releasing the device node;    *)
(*   WaitSpec  threads polling the device while it is started, hit by      *)
(*             errors and reset, with woken sleepers scheduled fairly;     *)
(*   CountSpec the interrupt thread, clear_stats and get_stats taken one   *)
(*             atomic operation at a time;                                 *)
(*   TurboSpec the commands that set and read back the turbo parameters,   *)
(*             for every scale and algorithm.                              *)
(***************************************************************************)
EXTENDS Integers, Sequences, FiniteSets, TLC

VARIABLES
    xsdfec,   \* struct xsdfec_dev: state, config, wr_protect, the counters
    regs,     \* the register window behind xsdfec->regs: address -> u32
    pc,       \* the caller of ioctl: "idle", or past the gate of
              \* xsdfec_dev_ioctl ("passed", or the command let through)
    last,     \* the handler that returned in the latest step (a command,
              \* "irq"), "none" when no handler returned in it
    ret,      \* its return value
    hwlog,    \* its calls of xsdfec_regwrite / xsdfec_regread, in order
    uin,      \* what its caller passed in (NoData when nothing was read)
    uout,     \* what it copied to user space (NoData when nothing)
    waitq,    \* the callers of poll on xsdfec->waitq: for each waiter,
              \* where it stands ("away", "parked" on the queue, "woken")
    at,       \* where the interrupt thread (irq) and the caller of
              \* clear_stats / get_stats (ctl) stand when these are taken
              \* one atomic operation at a time, the status words the
              \* former has read (err), the counters the latter has read
              \* (read), and for each counter the increments added since
              \* it was last set (added)
    files     \* the callers of open / release: for each process, where it
              \* stands ("closed", "busy": inside a failing xsdfec_dev_open,
              \* "open": it holds the device)

vars == <<xsdfec, regs, pc, last, ret, hwlog, uin, uout, waitq, at, files>>

----------------------------------------------------------------------------
(* Bounds of the model. *)

\* the interrupt thread is not scheduled once the counters sum to this
MaxErrors == 1

\* the register window keeps the code registers of code ids 0..MaxCodeId
MaxCodeId == 1

\* and words 0..MaxTableWord of each of the three tables
MaxTableWord == 5

\* the processes that open and release the device node are 1..MaxProcs
MaxProcs == 3

\* the threads that poll the device are 1..MaxWaiters
MaxWaiters == 2

\* taken one atomic operation at a time, the interrupt thread is not
\* scheduled once the counters sum to this
MaxTally == 3

----------------------------------------------------------------------------
(* 32-bit arithmetic.  A u32 is a natural number.  TLC's integers are      *)
(* 32-bit signed, so every operator below is written to give the u32       *)
(* result without forming an intermediate value of 2^31 or more; a u32     *)
(* result of 2^31 or more makes TLC stop with an overflow error.           *)

RECURSIVE Pow2(_)
Pow2(n) == IF n = 0 THEN 1 ELSE 2 * Pow2(n - 1)

RECURSIVE BitAnd(_, _)
BitAnd(a, b) ==
    IF a = 0 \/ b = 0 THEN 0
    ELSE ((a % 2) * (b % 2)) + 2 * BitAnd(a \div 2, b \div 2)

RECURSIVE BitOr(_, _)
BitOr(a, b) ==
    IF a = 0 THEN b
    ELSE IF b = 0 THEN a
    ELSE (IF (a % 2) + (b % 2) > 0 THEN 1 ELSE 0) + 2 * BitOr(a \div 2, b \div 2)

\* a & ~b
BitAndNot(a, b) == a - BitAnd(a, b)

\* a << n on a u32: (a * 2^n) mod 2^32 = (a mod 2^(32-n)) * 2^n
Shl(a, n) ==
    IF n = 0 THEN a
    ELSE IF n = 1 THEN 2 * a
    ELSE (a % Pow2(32 - n)) * Pow2(n)

\* a >> n
Shr(a, n) == a \div Pow2(n)

\* a - b on a u32: 2^32 + a - b when b > a
Sub32(a, b) ==
    IF a >= b THEN a - b
    ELSE (2147483647 - (b - a)) + 2147483647 + 2

\* 4 * (a + b) on a u32: (4 * x) mod 2^32 = 4 * (x mod 2^30)
Mul4Sum(a, b) == 4 * (((a % Pow2(30)) + (b % Pow2(30))) % Pow2(30))

RECURSIVE hweight32(_)
hweight32(w) == IF w = 0 THEN 0 ELSE (w % 2) + hweight32(w \div 2)

----------------------------------------------------------------------------
(* errno values and irqreturn_t, as the kernel defines them. *)

EPERM == 1
EIO == 5
EFAULT == 14
EBUSY == 16
EINVAL == 22
ENOTTY == 25
IRQ_NONE == 0
IRQ_HANDLED == 1

----------------------------------------------------------------------------
(* enums of uapi/misc/xilinx_sdfec.h *)

XSDFEC_INIT == 0
XSDFEC_STARTED == 1
XSDFEC_STOPPED == 2
XSDFEC_NEEDS_RESET == 3

XSDFEC_CODE_INVALID == 0
XSDFEC_TURBO_CODE == 1
XSDFEC_LDPC_CODE == 2

XSDFEC_INVALID_ORDER == 0
XSDFEC_MAINTAIN_ORDER == 1
XSDFEC_OUT_OF_ORDER == 2
XSDFEC_ORDER_MAX == 3

XSDFEC_1x128b == 1
XSDFEC_2x128b == 2
XSDFEC_4x128b == 4

XSDFEC_FIXED_VALUE == 0
XSDFEC_IN_BLOCK == 1
XSDFEC_PER_AXI_TRANSACTION == 2

----------------------------------------------------------------------------
(* Register map. *)

XSDFEC_AXI_WR_PROTECT_ADDR == 0
XSDFEC_CODE_WR_PROTECT_ADDR == 4
XSDFEC_ACTIVE_ADDR == 8
XSDFEC_AXIS_WIDTH_ADDR == 12
XSDFEC_AXIS_ENABLE_ADDR == 16
XSDFEC_AXIS_ENABLE_MASK == 63
XSDFEC_FEC_CODE_ADDR == 20
XSDFEC_ORDER_ADDR == 24
XSDFEC_ISR_MASK == 63
XSDFEC_ISR_ADDR == 28
XSDFEC_IER_ADDR == 32
XSDFEC_IDR_ADDR == 36
XSDFEC_IMR_ADDR == 40
XSDFEC_ECC_ISR_SBE == 2047
XSDFEC_ECC_ISR_MBE == 4192256
XSDFEC_ECC_ISR_MASK == BitOr(XSDFEC_ECC_ISR_SBE, XSDFEC_ECC_ISR_MBE)
XSDFEC_ECC_ISR_ADDR == 44
XSDFEC_ECC_IER_ADDR == 48
XSDFEC_ECC_IDR_ADDR == 52
XSDFEC_ECC_IMR_ADDR == 56
XSDFEC_BYPASS_ADDR == 60
XSDFEC_TURBO_ADDR == 256

XSDFEC_WRITE_PROTECT_ENABLE == 1
XSDFEC_WRITE_PROTECT_DISABLE == 0
XSDFEC_IS_ACTIVITY_SET == 1

\* the registers that keep a value (IER and IDR are write-only strobes)
ControlRegs ==
    { XSDFEC_AXI_WR_PROTECT_ADDR, XSDFEC_CODE_WR_PROTECT_ADDR,
      XSDFEC_ACTIVE_ADDR, XSDFEC_AXIS_WIDTH_ADDR, XSDFEC_AXIS_ENABLE_ADDR,
      XSDFEC_FEC_CODE_ADDR, XSDFEC_ORDER_ADDR, XSDFEC_ISR_ADDR,
      XSDFEC_IMR_ADDR, XSDFEC_ECC_ISR_ADDR, XSDFEC_ECC_IMR_ADDR,
      XSDFEC_BYPASS_ADDR, XSDFEC_TURBO_ADDR }

\* the LDPC code registers and table words the model keeps: code ids
\* 0..MaxCodeId and the first MaxTableWord + 1 words of each table
LdpcRegs ==
    { 8192 + (16 * id) + (4 * n) : id \in 0..MaxCodeId, n \in 0..3 }

TableRegs ==
    { base + 4 * w : base \in {65536, 98304, 131072}, w \in 0..MaxTableWord }

RegSpace == ControlRegs \cup LdpcRegs \cup TableRegs

----------------------------------------------------------------------------
(* The register window.  A machine m is the device structure, the register *)
(* window and the log of the accesses of the handler that is running.      *)

Machine(dev, window, log) == [dev |-> dev, regs |-> window, log |-> log]

\* iowrite32 as the device answers it: a write to an interrupt-enable
\* (-disable) register clears (sets) the written bits of the matching mask
\* register, which is what xsdfec_isr_enable reads back; any other register
\* keeps the value written
iowrite32(window, addr, value) ==
    IF addr = XSDFEC_IER_ADDR
    THEN [window EXCEPT ![XSDFEC_IMR_ADDR] = BitAndNot(@, value)]
    ELSE IF addr = XSDFEC_IDR_ADDR
    THEN [window EXCEPT ![XSDFEC_IMR_ADDR] = BitOr(@, value)]
    ELSE IF addr = XSDFEC_ECC_IER_ADDR
    THEN [window EXCEPT ![XSDFEC_ECC_IMR_ADDR] = BitAndNot(@, value)]
    ELSE IF addr = XSDFEC_ECC_IDR_ADDR
    THEN [window EXCEPT ![XSDFEC_ECC_IMR_ADDR] = BitOr(@, value)]
    ELSE [window EXCEPT ![addr] = value]

\* a word the model does not keep was never written: it reads as zero
ioread32(window, addr) == IF addr \in DOMAIN window THEN window[addr] ELSE 0

LogEntry(op, addr, value, wp) ==
    [op |-> op, addr |-> addr, value |-> value, wr_protect |-> wp]

\* xsdfec_regwrite with the write-protect test dropped (used to mutate)
xsdfec_regwrite_unguarded(m, addr, value) ==
    [m EXCEPT !.regs = iowrite32(@, addr, value),
              !.log = Append(@, LogEntry("regwrite", addr, value,
                                         m.dev.wr_protect))]

xsdfec_regwrite(m, addr, value) ==
    IF m.dev.wr_protect
    THEN [m EXCEPT !.log = Append(@, LogEntry("regwrite", addr, value, TRUE))]
    ELSE [m EXCEPT !.regs = iowrite32(@, addr, value),
                   !.log = Append(@, LogEntry("regwrite", addr, value, FALSE))]

\* the value xsdfec_regread returns
xsdfec_regread(m, addr) == ioread32(m.regs, addr)

\* the machine after xsdfec_regread (the access is logged)
Read(m, addr) ==
    [m EXCEPT !.log = Append(@, LogEntry("regread", addr,
                                         ioread32(m.regs, addr),
                                         m.dev.wr_protect))]

\* a function's result: the machine after it, its return value and what it
\* copied to user space
NoData == [kind |-> "none"]
Result(m, err, out) == [m |-> m, err |-> err, out |-> out]

----------------------------------------------------------------------------
(* The write-protection gate. *)

\* xsdfec_wr_protect(true) setting the flag before its register writes
\* (used to mutate)
xsdfec_wr_protect_flag_first(m, wr_pr) ==
    LET m0 == [m EXCEPT !.dev.wr_protect = wr_pr]
        m1 == xsdfec_regwrite(m0, XSDFEC_CODE_WR_PROTECT_ADDR,
                              IF wr_pr THEN XSDFEC_WRITE_PROTECT_ENABLE
                              ELSE XSDFEC_WRITE_PROTECT_DISABLE)
    IN  xsdfec_regwrite(m1, XSDFEC_AXI_WR_PROTECT_ADDR,
                        IF wr_pr THEN XSDFEC_WRITE_PROTECT_ENABLE
                        ELSE XSDFEC_WRITE_PROTECT_DISABLE)

xsdfec_wr_protect(m, wr_pr) ==
    IF wr_pr
    THEN LET m1 == xsdfec_regwrite(m, XSDFEC_CODE_WR_PROTECT_ADDR,
                                   XSDFEC_WRITE_PROTECT_ENABLE)
             m2 == xsdfec_regwrite(m1, XSDFEC_AXI_WR_PROTECT_ADDR,
                                   XSDFEC_WRITE_PROTECT_ENABLE)
         IN  [m2 EXCEPT !.dev.wr_protect = wr_pr]
    ELSE LET m0 == [m EXCEPT !.dev.wr_protect = wr_pr]
             m1 == xsdfec_regwrite(m0, XSDFEC_AXI_WR_PROTECT_ADDR,
                                   XSDFEC_WRITE_PROTECT_DISABLE)
         IN  xsdfec_regwrite(m1, XSDFEC_CODE_WR_PROTECT_ADDR,
                             XSDFEC_WRITE_PROTECT_DISABLE)

----------------------------------------------------------------------------
(* Open and release.  xsdfec_dev_open is two atomic operations when it     *)
(* fails: the decrement that finds the device taken, and the increment     *)
(* that undoes it.                                                         *)

\* xsdfec_dev_open taking the device whenever no count is left (used to
\* mutate)
xsdfec_dev_open_not_exclusive(dev) ==
    [dev |-> [dev EXCEPT !.open_count = @ - 1],
     taken |-> dev.open_count - 1 <= 0]

\* xsdfec_dev_open up to the result of atomic_dec_and_test: the device
\* after the decrement, and whether the counter reached zero (open has
\* then taken the device and returns 0)
xsdfec_dev_open(dev) ==
    [dev |-> [dev EXCEPT !.open_count = @ - 1],
     taken |-> dev.open_count - 1 = 0]

\* the rest of a failing xsdfec_dev_open: atomic_inc, return -EBUSY
xsdfec_dev_open_busy(dev) == [dev EXCEPT !.open_count = @ + 1]

xsdfec_dev_release(dev) == [dev EXCEPT !.open_count = @ + 1]

----------------------------------------------------------------------------
(* Status, configuration and interrupt enables. *)

\* notcopied: what copy_to_user / copy_from_user returns (bytes left)
xsdfec_get_status(m, notcopied) ==
    LET status == [kind |-> "status",
                   fec_id |-> m.dev.config.fec_id,
                   state |-> m.dev.state,
                   activity |-> BitAnd(xsdfec_regread(m, XSDFEC_ACTIVE_ADDR),
                                       XSDFEC_IS_ACTIVITY_SET)]
        m1 == Read(m, XSDFEC_ACTIVE_ADDR)
    IN  IF notcopied # 0 THEN Result(m1, -EFAULT, NoData)
        ELSE Result(m1, 0, status)

xsdfec_get_config(m, notcopied) ==
    IF notcopied # 0 THEN Result(m, -EFAULT, NoData)
    ELSE Result(m, 0, [kind |-> "config", config |-> m.dev.config])

xsdfec_isr_enable(m, enable) ==
    IF enable
    THEN LET m1 == xsdfec_regwrite(m, XSDFEC_IER_ADDR, XSDFEC_ISR_MASK)
             mask_read == xsdfec_regread(m1, XSDFEC_IMR_ADDR)
             m2 == Read(m1, XSDFEC_IMR_ADDR)
         IN  IF BitAnd(mask_read, XSDFEC_ISR_MASK) # 0
             THEN Result(m2, -EIO, NoData)
             ELSE Result(m2, 0, NoData)
    ELSE LET m1 == xsdfec_regwrite(m, XSDFEC_IDR_ADDR, XSDFEC_ISR_MASK)
             mask_read == xsdfec_regread(m1, XSDFEC_IMR_ADDR)
             m2 == Read(m1, XSDFEC_IMR_ADDR)
         IN  IF BitAnd(mask_read, XSDFEC_ISR_MASK) # XSDFEC_ISR_MASK
             THEN Result(m2, -EIO, NoData)
             ELSE Result(m2, 0, NoData)

xsdfec_ecc_isr_enable(m, enable) ==
    IF enable
    THEN LET m1 == xsdfec_regwrite(m, XSDFEC_ECC_IER_ADDR,
                                   XSDFEC_ECC_ISR_MASK)
             mask_read == xsdfec_regread(m1, XSDFEC_ECC_IMR_ADDR)
             m2 == Read(m1, XSDFEC_ECC_IMR_ADDR)
         IN  IF BitAnd(mask_read, XSDFEC_ECC_ISR_MASK) # 0
             THEN Result(m2, -EIO, NoData)
             ELSE Result(m2, 0, NoData)
    ELSE LET m1 == xsdfec_regwrite(m, XSDFEC_ECC_IDR_ADDR,
                                   XSDFEC_ECC_ISR_MASK)
             mask_read == xsdfec_regread(m1, XSDFEC_ECC_IMR_ADDR)
             m2 == Read(m1, XSDFEC_ECC_IMR_ADDR)
         IN  IF BitAnd(mask_read, XSDFEC_ECC_ISR_MASK) # XSDFEC_ECC_ISR_MASK
             THEN Result(m2, -EIO, NoData)
             ELSE Result(m2, 0, NoData)

\* irq: [enable_isr, enable_ecc_isr], the struct xsdfec_irq copied in
xsdfec_set_irq(m, irq, notcopied) ==
    IF notcopied # 0 THEN Result(m, -EFAULT, NoData)
    ELSE LET r1 == IF irq.enable_isr THEN xsdfec_isr_enable(m, TRUE)
                   ELSE Result(m, 0, NoData)
         IN  IF r1.err < 0 THEN r1
             ELSE LET r2 == IF irq.enable_ecc_isr
                            THEN xsdfec_ecc_isr_enable(r1.m, TRUE)
                            ELSE Result(r1.m, 0, NoData)
                  IN  IF r2.err < 0 THEN r2 ELSE Result(r2.m, 0, NoData)

----------------------------------------------------------------------------
(* Turbo parameters. *)

XSDFEC_TURBO_SCALE_MASK == 15
XSDFEC_TURBO_SCALE_BIT_POS == 8

\* turbo: [alg, scale], the struct xsdfec_turbo copied in
xsdfec_set_turbo(m, turbo, notcopied) ==
    IF notcopied # 0 THEN Result(m, -EFAULT, NoData)
    ELSE IF m.dev.config.code = XSDFEC_LDPC_CODE THEN Result(m, -EIO, NoData)
    ELSE LET m0 == IF m.dev.config.code = XSDFEC_CODE_INVALID
                   THEN [m EXCEPT !.dev.config.code = XSDFEC_TURBO_CODE]
                   ELSE m
             m1 == IF m0.dev.wr_protect THEN xsdfec_wr_protect(m0, FALSE)
                   ELSE m0
             turbo_write ==
                 BitOr(Shl(BitAnd(turbo.scale, XSDFEC_TURBO_SCALE_MASK),
                           XSDFEC_TURBO_SCALE_BIT_POS),
                       turbo.alg)
         IN  Result(xsdfec_regwrite(m1, XSDFEC_TURBO_ADDR, turbo_write),
                    0, NoData)

xsdfec_get_turbo(m, notcopied) ==
    IF m.dev.config.code = XSDFEC_LDPC_CODE THEN Result(m, -EIO, NoData)
    ELSE LET reg_value == xsdfec_regread(m, XSDFEC_TURBO_ADDR)
             m1 == Read(m, XSDFEC_TURBO_ADDR)
             turbo_params ==
                 [kind |-> "turbo",
                  scale |-> Shr(BitAnd(reg_value, XSDFEC_TURBO_SCALE_MASK),
                                XSDFEC_TURBO_SCALE_BIT_POS),
                  alg |-> BitAnd(reg_value, 1)]
         IN  IF notcopied # 0 THEN Result(m1, -EFAULT, NoData)
             ELSE Result(m1, 0, turbo_params)

----------------------------------------------------------------------------
(* LDPC code registers. *)

XSDFEC_LDPC_CODE_REG0_ADDR_BASE == 8192
XSDFEC_LDPC_CODE_REG0_ADDR_HIGH == 8700
XSDFEC_LDPC_CODE_REG1_ADDR_BASE == 8196
XSDFEC_LDPC_CODE_REG1_ADDR_HIGH == 8704
XSDFEC_LDPC_CODE_REG2_ADDR_BASE == 8200
XSDFEC_LDPC_CODE_REG2_ADDR_HIGH == 8708
XSDFEC_LDPC_CODE_REG3_ADDR_BASE == 8204
XSDFEC_LDPC_CODE_REG3_ADDR_HIGH == 8712

XSDFEC_LDPC_REG_JUMP == 16
XSDFEC_REG0_N_MASK == 65535
XSDFEC_REG0_N_LSB == 0
XSDFEC_REG0_K_MASK == 2147418112
XSDFEC_REG0_K_LSB == 16

\* base + offset * XSDFEC_LDPC_REG_JUMP (offset is a u16 code id: the u32
\* sum cannot wrap)
LdpcRegAddr(base, offset) == base + offset * XSDFEC_LDPC_REG_JUMP

\* xsdfec_reg0_write without its test of the address (used to mutate)
xsdfec_reg0_write_unchecked(m, n, k, offset) ==
    LET n1 == Shl(BitAnd(n, XSDFEC_REG0_N_MASK), XSDFEC_REG0_N_LSB)
        k1 == BitAnd(Shl(k, XSDFEC_REG0_K_LSB), XSDFEC_REG0_K_MASK)
        wdata == BitOr(k1, n1)
        addr == LdpcRegAddr(XSDFEC_LDPC_CODE_REG0_ADDR_BASE, offset)
    IN  Result(xsdfec_regwrite(m, addr, wdata), 0, NoData)

xsdfec_reg0_write(m, n, k, offset) ==
    LET n1 == Shl(BitAnd(n, XSDFEC_REG0_N_MASK), XSDFEC_REG0_N_LSB)
        k1 == BitAnd(Shl(k, XSDFEC_REG0_K_LSB), XSDFEC_REG0_K_MASK)
        wdata == BitOr(k1, n1)
        addr == LdpcRegAddr(XSDFEC_LDPC_CODE_REG0_ADDR_BASE, offset)
    IN  IF addr > XSDFEC_LDPC_CODE_REG0_ADDR_HIGH
        THEN Result(m, -EINVAL, NoData)
        ELSE Result(xsdfec_regwrite(m, addr, wdata), 0, NoData)

\* the collectors return the descriptor with the fields they decode
xsdfec_collect_ldpc_reg0(m, code_id, ldpc_params) ==
    LET reg_addr == LdpcRegAddr(XSDFEC_LDPC_CODE_REG0_ADDR_BASE, code_id)
        reg_value == xsdfec_regread(m, reg_addr)
    IN  IF reg_addr > XSDFEC_LDPC_CODE_REG0_ADDR_HIGH
        THEN Result(m, -EINVAL, ldpc_params)
        ELSE Result(Read(m, reg_addr), 0,
                    [ldpc_params EXCEPT
                        !.n = BitAnd(Shr(reg_value, XSDFEC_REG0_N_LSB),
                                     XSDFEC_REG0_N_MASK),
                        !.k = BitAnd(Shr(reg_value, XSDFEC_REG0_K_LSB),
                                     XSDFEC_REG0_K_MASK)])

XSDFEC_REG1_PSIZE_MASK == 511
XSDFEC_REG1_NO_PACKING_MASK == 1024
XSDFEC_REG1_NO_PACKING_LSB == 10
XSDFEC_REG1_NM_MASK == 1046528
XSDFEC_REG1_NM_LSB == 11

xsdfec_reg1_write(m, psize, no_packing, nm, offset) ==
    LET psize1 == BitAnd(psize, XSDFEC_REG1_PSIZE_MASK)
        no_packing1 == BitAnd(Shl(no_packing, XSDFEC_REG1_NO_PACKING_LSB),
                              XSDFEC_REG1_NO_PACKING_MASK)
        nm1 == BitAnd(Shl(nm, XSDFEC_REG1_NM_LSB), XSDFEC_REG1_NM_MASK)
        wdata == BitOr(BitOr(nm1, no_packing1), psize1)
        addr == LdpcRegAddr(XSDFEC_LDPC_CODE_REG1_ADDR_BASE, offset)
    IN  IF addr > XSDFEC_LDPC_CODE_REG1_ADDR_HIGH
        THEN Result(m, -EINVAL, NoData)
        ELSE Result(xsdfec_regwrite(m, addr, wdata), 0, NoData)

xsdfec_collect_ldpc_reg1(m, code_id, ldpc_params) ==
    LET reg_addr == LdpcRegAddr(XSDFEC_LDPC_CODE_REG1_ADDR_BASE, code_id)
        reg_value == xsdfec_regread(m, reg_addr)
    IN  IF reg_addr > XSDFEC_LDPC_CODE_REG1_ADDR_HIGH
        THEN Result(m, -EINVAL, ldpc_params)
        ELSE Result(Read(m, reg_addr), 0,
                    [ldpc_params EXCEPT
                        !.psize = BitAnd(reg_value, XSDFEC_REG1_PSIZE_MASK),
                        !.no_packing =
                            BitAnd(Shr(reg_value, XSDFEC_REG1_NO_PACKING_LSB),
                                   XSDFEC_REG1_NO_PACKING_MASK),
                        !.nm = BitAnd(Shr(reg_value, XSDFEC_REG1_NM_LSB),
                                      XSDFEC_REG1_NM_MASK)])

XSDFEC_REG2_NLAYERS_MASK == 511
XSDFEC_REG2_NLAYERS_LSB == 0
XSDFEC_REG2_NNMQC_MASK == 1048064
XSDFEC_REG2_NMQC_LSB == 9
XSDFEC_REG2_NORM_TYPE_MASK == 1048576
XSDFEC_REG2_NORM_TYPE_LSB == 20
XSDFEC_REG2_SPECIAL_QC_MASK == 2097152
XSDFEC_REG2_SPEICAL_QC_LSB == 21
XSDFEC_REG2_NO_FINAL_PARITY_MASK == 4194304
XSDFEC_REG2_NO_FINAL_PARITY_LSB == 22
XSDFEC_REG2_MAX_SCHEDULE_MASK == 25165824
XSDFEC_REG2_MAX_SCHEDULE_LSB == 23

xsdfec_reg2_write(m, nlayers, nmqc, norm_type, special_qc, no_final_parity, max_schedule, offset) ==
    LET nlayers1 == BitAnd(nlayers, XSDFEC_REG2_NLAYERS_MASK)
        nmqc1 == BitAnd(Shl(nmqc, XSDFEC_REG2_NMQC_LSB),
                        XSDFEC_REG2_NNMQC_MASK)
        norm_type1 == BitAnd(Shl(norm_type, XSDFEC_REG2_NORM_TYPE_LSB),
                             XSDFEC_REG2_NORM_TYPE_MASK)
        special_qc1 == BitAnd(Shl(special_qc, XSDFEC_REG2_SPEICAL_QC_LSB),
                              XSDFEC_REG2_SPECIAL_QC_MASK)
        no_final_parity1 ==
            BitAnd(Shl(no_final_parity, XSDFEC_REG2_NO_FINAL_PARITY_LSB),
                   XSDFEC_REG2_NO_FINAL_PARITY_MASK)
        max_schedule1 ==
            BitAnd(Shl(max_schedule, XSDFEC_REG2_MAX_SCHEDULE_LSB),
                   XSDFEC_REG2_MAX_SCHEDULE_MASK)
        wdata == BitOr(BitOr(BitOr(max_schedule1, no_final_parity1),
                             BitOr(special_qc1, norm_type1)),
                       BitOr(nmqc1, nlayers1))
        addr == LdpcRegAddr(XSDFEC_LDPC_CODE_REG2_ADDR_BASE, offset)
    IN  IF addr > XSDFEC_LDPC_CODE_REG2_ADDR_HIGH
        THEN Result(m, -EINVAL, NoData)
        ELSE Result(xsdfec_regwrite(m, addr, wdata), 0, NoData)

xsdfec_collect_ldpc_reg2(m, code_id, ldpc_params) ==
    LET reg_addr == LdpcRegAddr(XSDFEC_LDPC_CODE_REG2_ADDR_BASE, code_id)
        reg_value == xsdfec_regread(m, reg_addr)
    IN  IF reg_addr > XSDFEC_LDPC_CODE_REG2_ADDR_HIGH
        THEN Result(m, -EINVAL, ldpc_params)
        ELSE Result(Read(m, reg_addr), 0,
                    [ldpc_params EXCEPT
                        !.nlayers =
                            BitAnd(Shr(reg_value, XSDFEC_REG2_NLAYERS_LSB),
                                   XSDFEC_REG2_NLAYERS_MASK),
                        !.nmqc =
                            BitAnd(Shr(reg_value, XSDFEC_REG2_NMQC_LSB),
                                   XSDFEC_REG2_NNMQC_MASK),
                        !.norm_type =
                            BitAnd(Shr(reg_value, XSDFEC_REG2_NORM_TYPE_LSB),
                                   XSDFEC_REG2_NORM_TYPE_MASK),
                        !.special_qc =
                            BitAnd(Shr(reg_value, XSDFEC_REG2_SPEICAL_QC_LSB),
                                   XSDFEC_REG2_SPECIAL_QC_MASK),
                        !.no_final_parity =
                            BitAnd(Shr(reg_value,
                                       XSDFEC_REG2_NO_FINAL_PARITY_LSB),
                                   XSDFEC_REG2_NO_FINAL_PARITY_MASK),
                        !.max_schedule =
                            BitAnd(Shr(reg_value,
                                       XSDFEC_REG2_MAX_SCHEDULE_LSB),
                                   XSDFEC_REG2_MAX_SCHEDULE_MASK)])

XSDFEC_REG3_LA_OFF_LSB == 8
XSDFEC_REG3_QC_OFF_LSB == 16

\* the parameters are u8 sc_off, u8 la_off, u16 qc_off: the caller's u32
\* values are truncated at the call
xsdfec_reg3_write(m, sc_off, la_off, qc_off, offset) ==
    LET wdata == BitOr(BitOr(Shl(qc_off % 65536, XSDFEC_REG3_QC_OFF_LSB),
                             Shl(la_off % 256, XSDFEC_REG3_LA_OFF_LSB)),
                       sc_off % 256)
        addr == LdpcRegAddr(XSDFEC_LDPC_CODE_REG3_ADDR_BASE, offset)
    IN  IF addr > XSDFEC_LDPC_CODE_REG3_ADDR_HIGH
        THEN Result(m, -EINVAL, NoData)
        ELSE Result(xsdfec_regwrite(m, addr, wdata), 0, NoData)

\* the offsets are taken from reg_addr, not from reg_value, as in the source
xsdfec_collect_ldpc_reg3(m, code_id, ldpc_params) ==
    LET reg_addr == LdpcRegAddr(XSDFEC_LDPC_CODE_REG3_ADDR_BASE, code_id)
    IN  IF reg_addr > XSDFEC_LDPC_CODE_REG3_ADDR_HIGH
        THEN Result(m, -EINVAL, ldpc_params)
        ELSE Result(Read(m, reg_addr), 0,
                    [ldpc_params EXCEPT
                        !.qc_off = BitAnd(Shr(reg_addr,
                                              XSDFEC_REG3_QC_OFF_LSB), 255),
                        !.la_off = BitAnd(Shr(reg_addr,
                                              XSDFEC_REG3_LA_OFF_LSB), 255),
                        !.sc_off = BitAnd(reg_addr, 255)])

----------------------------------------------------------------------------
(* The three tables. *)

XSDFEC_LDPC_SC_TABLE_ADDR_BASE == 65536
XSDFEC_LDPC_LA_TABLE_ADDR_BASE == 98304
XSDFEC_LDPC_QC_TABLE_ADDR_BASE == 131072

XSDFEC_SC_TABLE_DEPTH == 1020
XSDFEC_REG_WIDTH_JUMP == 4
XSDFEC_LA_TABLE_DEPTH == 4092
XSDFEC_QC_TABLE_DEPTH == 32764

\* ptr[reg] of a table of the descriptor (a C array, zero past what the
\* caller filled in)
TableWord(ptr, reg) == IF reg < Len(ptr) THEN ptr[reg + 1] ELSE 0

\* base + (offset + reg) * XSDFEC_REG_WIDTH_JUMP on a u32.  The product is
\* 4 * ((offset + reg) mod 2^30); from 2^31 on it is taken 2^32 lower, which
\* leaves the sum the same modulo 2^32 and keeps it in the range of the
\* integers (a sum that comes out negative stands for an address of 2^31
\* or more)
TableAddr(base, offset, reg) ==
    LET words == ((offset % Pow2(30)) + (reg % Pow2(30))) % Pow2(30)
    IN  IF words < Pow2(29) THEN base + 4 * words
        ELSE base + 4 * (words - Pow2(30))

\* 4 * (offset + len) on a u32
DeepestReach(offset, len) == Mul4Sum(offset, len)

\* for (reg = from; reg < len; reg++) xsdfec_regwrite(base + ..., ptr[reg])
RECURSIVE TableWriteLoop(_, _, _, _, _, _)
TableWriteLoop(m, base, offset, ptr, len, reg) ==
    IF reg >= len THEN m
    ELSE TableWriteLoop(xsdfec_regwrite(m, TableAddr(base, offset, reg),
                                        TableWord(ptr, reg)),
                        base, offset, ptr, len, reg + 1)

\* for (reg = from; reg < len; reg++) ptr[reg] = xsdfec_regread(base + ...):
\* the machine (the reads logged) and the words read
RECURSIVE TableReadLoop(_, _, _, _, _)
TableReadLoop(m, base, offset, len, reg) ==
    IF reg >= len THEN m
    ELSE TableReadLoop(Read(m, TableAddr(base, offset, reg)),
                       base, offset, len, reg + 1)

TableWords(m, base, offset, len) ==
    [i \in 1..len |-> xsdfec_regread(m, TableAddr(base, offset, i - 1))]

xsdfec_sc_table_write(m, offset, sc_ptr, len) ==
    IF DeepestReach(offset, len) > XSDFEC_SC_TABLE_DEPTH
    THEN Result(m, -EINVAL, NoData)
    ELSE Result(TableWriteLoop(m, XSDFEC_LDPC_SC_TABLE_ADDR_BASE, offset,
                               sc_ptr, len, 0), len, NoData)

xsdfec_collect_sc_table(m, offset, len) ==
    IF DeepestReach(offset, len) > XSDFEC_SC_TABLE_DEPTH
    THEN Result(m, -EINVAL, <<>>)
    ELSE Result(TableReadLoop(m, XSDFEC_LDPC_SC_TABLE_ADDR_BASE, offset,
                              len, 0), 0,
                TableWords(m, XSDFEC_LDPC_SC_TABLE_ADDR_BASE, offset, len))

xsdfec_la_table_write(m, offset, la_ptr, len) ==
    IF DeepestReach(offset, len) > XSDFEC_LA_TABLE_DEPTH
    THEN Result(m, -EINVAL, NoData)
    ELSE Result(TableWriteLoop(m, XSDFEC_LDPC_LA_TABLE_ADDR_BASE, offset,
                               la_ptr, len, 0), len, NoData)

xsdfec_collect_la_table(m, offset, len) ==
    IF DeepestReach(offset, len) > XSDFEC_LA_TABLE_DEPTH
    THEN Result(m, -EINVAL, <<>>)
    ELSE Result(TableReadLoop(m, XSDFEC_LDPC_LA_TABLE_ADDR_BASE, offset,
                              len, 0), 0,
                TableWords(m, XSDFEC_LDPC_LA_TABLE_ADDR_BASE, offset, len))

xsdfec_qc_table_write(m, offset, qc_ptr, len) ==
    IF DeepestReach(offset, len) > XSDFEC_QC_TABLE_DEPTH
    THEN Result(m, -EINVAL, NoData)
    ELSE Result(TableWriteLoop(m, XSDFEC_LDPC_QC_TABLE_ADDR_BASE, offset,
                               qc_ptr, len, 0), len, NoData)

xsdfec_collect_qc_table(m, offset, len) ==
    IF DeepestReach(offset, len) > XSDFEC_QC_TABLE_DEPTH
    THEN Result(m, -EINVAL, <<>>)
    ELSE Result(TableReadLoop(m, XSDFEC_LDPC_QC_TABLE_ADDR_BASE, offset,
                              len, 0), 0,
                TableWords(m, XSDFEC_LDPC_QC_TABLE_ADDR_BASE, offset, len))

----------------------------------------------------------------------------
(* Programming and reading back one LDPC code. *)

\* xsdfec_add_ldpc writing the la table before the sc table (used to
\* mutate)
xsdfec_add_ldpc_la_first(m, ldpc, notcopied) ==
    IF notcopied # 0 THEN Result(m, notcopied, NoData)
    ELSE IF m.dev.config.code = XSDFEC_TURBO_CODE THEN Result(m, 0, NoData)
    ELSE
    LET m0 == IF m.dev.wr_protect THEN xsdfec_wr_protect(m, FALSE) ELSE m
        r0 == xsdfec_reg0_write(m0, ldpc.n, ldpc.k, ldpc.code_id)
        r1 == xsdfec_reg1_write(r0.m, ldpc.psize, ldpc.no_packing, ldpc.nm,
                                ldpc.code_id)
        r2 == xsdfec_reg2_write(r1.m, ldpc.nlayers, ldpc.nmqc,
                                ldpc.norm_type, ldpc.special_qc,
                                ldpc.no_final_parity, ldpc.max_schedule,
                                ldpc.code_id)
        r3 == xsdfec_reg3_write(r2.m, ldpc.sc_off, ldpc.la_off, ldpc.qc_off,
                                ldpc.code_id)
        r4 == xsdfec_la_table_write(r3.m, Mul4Sum(ldpc.la_off, 0),
                                    ldpc.la_table, ldpc.nlayers)
        r5 == xsdfec_sc_table_write(r4.m, ldpc.sc_off, ldpc.sc_table,
                                    ldpc.nlayers)
        r6 == xsdfec_qc_table_write(r5.m, Mul4Sum(ldpc.qc_off, 0),
                                    ldpc.qc_table, ldpc.nqc)
    IN  IF r0.err # 0 THEN r0
        ELSE IF r1.err # 0 THEN r1
        ELSE IF r2.err # 0 THEN r2
        ELSE IF r3.err # 0 THEN r3
        ELSE IF r4.err < 0 THEN r4
        ELSE IF r5.err < 0 THEN r5
        ELSE IF r6.err < 0 THEN r6
        ELSE Result(r6.m, 0, NoData)

\* ldpc: the struct xsdfec_ldpc_params copied in
xsdfec_add_ldpc(m, ldpc, notcopied) ==
    IF notcopied # 0 THEN Result(m, notcopied, NoData)
    ELSE IF m.dev.config.code = XSDFEC_TURBO_CODE THEN Result(m, 0, NoData)
    ELSE
    LET m0 == IF m.dev.wr_protect THEN xsdfec_wr_protect(m, FALSE) ELSE m
        r0 == xsdfec_reg0_write(m0, ldpc.n, ldpc.k, ldpc.code_id)
        r1 == xsdfec_reg1_write(r0.m, ldpc.psize, ldpc.no_packing, ldpc.nm,
                                ldpc.code_id)
        r2 == xsdfec_reg2_write(r1.m, ldpc.nlayers, ldpc.nmqc,
                                ldpc.norm_type, ldpc.special_qc,
                                ldpc.no_final_parity, ldpc.max_schedule,
                                ldpc.code_id)
        r3 == xsdfec_reg3_write(r2.m, ldpc.sc_off, ldpc.la_off, ldpc.qc_off,
                                ldpc.code_id)
        r4 == xsdfec_sc_table_write(r3.m, ldpc.sc_off, ldpc.sc_table,
                                    ldpc.nlayers)
        r5 == xsdfec_la_table_write(r4.m, Mul4Sum(ldpc.la_off, 0),
                                    ldpc.la_table, ldpc.nlayers)
        r6 == xsdfec_qc_table_write(r5.m, Mul4Sum(ldpc.qc_off, 0),
                                    ldpc.qc_table, ldpc.nqc)
    IN  IF r0.err # 0 THEN r0
        ELSE IF r1.err # 0 THEN r1
        ELSE IF r2.err # 0 THEN r2
        ELSE IF r3.err # 0 THEN r3
        ELSE IF r4.err < 0 THEN r4
        ELSE IF r5.err < 0 THEN r5
        ELSE IF r6.err < 0 THEN r6
        ELSE Result(r6.m, 0, NoData)

\* ldpc_params: the struct copied in from the caller (code_id, nlayers, nqc
\* and whatever else the caller left in it); notcopied_in / notcopied_out:
\* what copy_from_user / copy_to_user return
xsdfec_get_ldpc_code_params(m, ldpc_params, notcopied_in, notcopied_out) ==
    IF m.dev.config.code = XSDFEC_TURBO_CODE THEN Result(m, -EIO, NoData)
    ELSE IF notcopied_in # 0 THEN Result(m, notcopied_in, NoData)
    ELSE
    LET r0 == xsdfec_collect_ldpc_reg0(m, ldpc_params.code_id, ldpc_params)
        r1 == xsdfec_collect_ldpc_reg1(r0.m, ldpc_params.code_id, r0.out)
        r2 == xsdfec_collect_ldpc_reg2(r1.m, ldpc_params.code_id, r1.out)
        r3 == xsdfec_collect_ldpc_reg3(r2.m, ldpc_params.code_id, r2.out)
        p == r3.out
        r4 == xsdfec_collect_sc_table(r3.m, p.sc_off, p.nlayers)
        r5 == xsdfec_collect_la_table(r4.m, Mul4Sum(p.la_off, 0), p.nlayers)
        r6 == xsdfec_collect_qc_table(r5.m, Mul4Sum(p.qc_off, 0), p.nqc)
        filled == [p EXCEPT !.sc_table = r4.out,
                            !.la_table = r5.out,
                            !.qc_table = r6.out]
    IN  IF r0.err # 0 THEN Result(r0.m, r0.err, NoData)
        ELSE IF r1.err # 0 THEN Result(r1.m, r1.err, NoData)
        ELSE IF r2.err # 0 THEN Result(r2.m, r2.err, NoData)
        ELSE IF r3.err # 0 THEN Result(r3.m, r3.err, NoData)
        ELSE IF r4.err < 0 THEN Result(r4.m, r4.err, NoData)
        ELSE IF r5.err < 0 THEN Result(r5.m, r5.err, NoData)
        ELSE IF r6.err < 0 THEN Result(r6.m, r6.err, NoData)
        ELSE IF notcopied_out # 0 THEN Result(r6.m, 0, NoData)
        ELSE Result(r6.m, 0, [kind |-> "ldpc", params |-> filled])

----------------------------------------------------------------------------
(* Order, bypass, activity. *)

\* xsdfec_set_order without its test of the device state (used to mutate)
xsdfec_set_order_unchecked(m, order) ==
    IF order <= XSDFEC_INVALID_ORDER \/ order >= XSDFEC_ORDER_MAX
    THEN Result(m, -EINVAL, NoData)
    ELSE LET m1 == xsdfec_regwrite(m, XSDFEC_ORDER_ADDR, Sub32(order, 1))
         IN  Result([m1 EXCEPT !.dev.config.order = order], 0, NoData)

xsdfec_set_order(m, order) ==
    IF order <= XSDFEC_INVALID_ORDER \/ order >= XSDFEC_ORDER_MAX
    THEN Result(m, -EINVAL, NoData)
    ELSE IF m.dev.state = XSDFEC_STARTED THEN Result(m, -EIO, NoData)
    ELSE LET m1 == xsdfec_regwrite(m, XSDFEC_ORDER_ADDR, Sub32(order, 1))
         IN  Result([m1 EXCEPT !.dev.config.order = order], 0, NoData)

\* xsdfec_set_bypass without its test of the device state (used to mutate)
xsdfec_set_bypass_unchecked(m, bypass) ==
    IF bypass > 1 THEN Result(m, -EINVAL, NoData)
    ELSE Result(xsdfec_regwrite(m, XSDFEC_BYPASS_ADDR, bypass), 0, NoData)

xsdfec_set_bypass(m, bypass) ==
    IF bypass > 1 THEN Result(m, -EINVAL, NoData)
    ELSE IF m.dev.state = XSDFEC_STARTED THEN Result(m, -EIO, NoData)
    ELSE Result(xsdfec_regwrite(m, XSDFEC_BYPASS_ADDR, bypass), 0, NoData)

xsdfec_is_active(m) ==
    LET reg_value == xsdfec_regread(m, XSDFEC_ACTIVE_ADDR)
    IN  Result(Read(m, XSDFEC_ACTIVE_ADDR), 0,
               [kind |-> "is_active",
                is_active |-> BitAnd(reg_value, XSDFEC_IS_ACTIVITY_SET) # 0])

----------------------------------------------------------------------------
(* AXI-stream configuration. *)

xsdfec_translate_axis_width_cfg_val(axis_width_cfg) ==
    IF axis_width_cfg = XSDFEC_1x128b THEN 0
    ELSE IF axis_width_cfg = XSDFEC_2x128b THEN 1
    ELSE IF axis_width_cfg = XSDFEC_4x128b THEN 2
    ELSE 0

xsdfec_translate_axis_words_cfg_val(axis_word_inc_cfg) ==
    IF axis_word_inc_cfg = XSDFEC_FIXED_VALUE
       \/ axis_word_inc_cfg = XSDFEC_IN_BLOCK THEN 0
    ELSE IF axis_word_inc_cfg = XSDFEC_PER_AXI_TRANSACTION THEN 1
    ELSE 0

XSDFEC_AXIS_DOUT_WORDS_LSB == 5
XSDFEC_AXIS_DOUT_WIDTH_LSB == 3
XSDFEC_AXIS_DIN_WORDS_LSB == 2
XSDFEC_AXIS_DIN_WIDTH_LSB == 0

xsdfec_cfg_axi_streams(m) ==
    LET config == m.dev.config
        dout_words_field ==
            xsdfec_translate_axis_words_cfg_val(config.dout_word_include)
        dout_width_field ==
            xsdfec_translate_axis_width_cfg_val(config.dout_width)
        din_words_field ==
            xsdfec_translate_axis_words_cfg_val(config.din_word_include)
        din_width_field ==
            xsdfec_translate_axis_width_cfg_val(config.din_width)
        reg_value ==
            BitOr(BitOr(Shl(dout_words_field, XSDFEC_AXIS_DOUT_WORDS_LSB),
                        Shl(dout_width_field, XSDFEC_AXIS_DOUT_WIDTH_LSB)),
                  BitOr(Shl(din_words_field, XSDFEC_AXIS_DIN_WORDS_LSB),
                        Shl(din_width_field, XSDFEC_AXIS_DIN_WIDTH_LSB)))
    IN  xsdfec_regwrite(m, XSDFEC_AXIS_WIDTH_ADDR, reg_value)

----------------------------------------------------------------------------
(* Start, stop, statistics, default configuration. *)

\* xsdfec_start without its test of the decode order (used to mutate)
xsdfec_start_no_order_check(m) ==
    IF m.dev.config.code = XSDFEC_CODE_INVALID THEN Result(m, -EINVAL, NoData)
    ELSE LET m1 == Read(m, XSDFEC_FEC_CODE_ADDR)
             m2 == xsdfec_regwrite(m1, XSDFEC_AXIS_ENABLE_ADDR,
                                   XSDFEC_AXIS_ENABLE_MASK)
             m3 == xsdfec_wr_protect(m2, TRUE)
         IN  Result([m3 EXCEPT !.dev.state = XSDFEC_STARTED], 0, NoData)

\* xsdfec_start raising the protection before it enables the streams
\* (used to mutate)
xsdfec_start_protect_first(m) ==
    IF m.dev.config.code = XSDFEC_CODE_INVALID
       \/ m.dev.config.order = XSDFEC_INVALID_ORDER
    THEN Result(m, -EINVAL, NoData)
    ELSE LET m1 == Read(m, XSDFEC_FEC_CODE_ADDR)
             m2 == xsdfec_wr_protect(m1, TRUE)
             m3 == xsdfec_regwrite(m2, XSDFEC_AXIS_ENABLE_ADDR,
                                   XSDFEC_AXIS_ENABLE_MASK)
         IN  Result([m3 EXCEPT !.dev.state = XSDFEC_STARTED], 0, NoData)

xsdfec_start(m) ==
    IF m.dev.config.code = XSDFEC_CODE_INVALID THEN Result(m, -EINVAL, NoData)
    ELSE LET regread == BitAnd(xsdfec_regread(m, XSDFEC_FEC_CODE_ADDR), 1)
             m1 == Read(m, XSDFEC_FEC_CODE_ADDR)
         IN  IF regread # Sub32(m.dev.config.code, 1)
             THEN Result(m1, -EINVAL, NoData)
             ELSE IF m.dev.config.order = XSDFEC_INVALID_ORDER
             THEN Result(m1, -EINVAL, NoData)
             ELSE LET m2 == xsdfec_regwrite(m1, XSDFEC_AXIS_ENABLE_ADDR,
                                            XSDFEC_AXIS_ENABLE_MASK)
                      m3 == xsdfec_wr_protect(m2, TRUE)
                  IN  Result([m3 EXCEPT !.dev.state = XSDFEC_STARTED],
                             0, NoData)

\* xsdfec_stop leaving the write protection as it is (used to mutate)
xsdfec_stop_keep_protect(m) ==
    LET regread == BitAndNot(xsdfec_regread(m, XSDFEC_AXIS_ENABLE_ADDR),
                             XSDFEC_AXIS_ENABLE_MASK)
        m2 == Read(m, XSDFEC_AXIS_ENABLE_ADDR)
        m3 == xsdfec_regwrite(m2, XSDFEC_AXIS_ENABLE_ADDR, regread)
    IN  Result([m3 EXCEPT !.dev.state = XSDFEC_STOPPED], 0, NoData)

xsdfec_stop(m) ==
    LET m1 == xsdfec_wr_protect(m, FALSE)
        regread == BitAndNot(xsdfec_regread(m1, XSDFEC_AXIS_ENABLE_ADDR),
                             XSDFEC_AXIS_ENABLE_MASK)
        m2 == Read(m1, XSDFEC_AXIS_ENABLE_ADDR)
        m3 == xsdfec_regwrite(m2, XSDFEC_AXIS_ENABLE_ADDR, regread)
    IN  Result([m3 EXCEPT !.dev.state = XSDFEC_STOPPED], 0, NoData)

\* xsdfec_clear_stats leaving the correctable-error count (used to mutate)
xsdfec_clear_stats_keep_cecc(m) ==
    Result([m EXCEPT !.dev.isr_err_count = 0,
                     !.dev.uecc_count = 0], 0, NoData)

xsdfec_clear_stats(m) ==
    Result([m EXCEPT !.dev.isr_err_count = 0,
                     !.dev.uecc_count = 0,
                     !.dev.cecc_count = 0], 0, NoData)

xsdfec_get_stats(m, notcopied) ==
    LET user_stats == [kind |-> "stats",
                       isr_err_count |-> m.dev.isr_err_count,
                       cecc_count |-> m.dev.cecc_count,
                       uecc_count |-> m.dev.uecc_count]
    IN  IF notcopied # 0 THEN Result(m, -EFAULT, NoData)
        ELSE Result(m, 0, user_stats)

\* xsdfec_set_default_config leaving config.order as it was (used to
\* mutate)
xsdfec_set_default_config_keep_order(m) ==
    LET m0 == [m EXCEPT !.dev.state = XSDFEC_INIT,
                        !.dev.wr_protect = FALSE]
        m1 == xsdfec_wr_protect(m0, FALSE)
        m2 == xsdfec_regwrite(m1, XSDFEC_FEC_CODE_ADDR,
                              Sub32(m1.dev.config.code, 1))
    IN  Result(xsdfec_cfg_axi_streams(m2), 0, NoData)

xsdfec_set_default_config(m) ==
    LET m0 == [m EXCEPT !.dev.state = XSDFEC_INIT,
                        !.dev.config.order = XSDFEC_INVALID_ORDER,
                        !.dev.wr_protect = FALSE]
        m1 == xsdfec_wr_protect(m0, FALSE)
        m2 == xsdfec_regwrite(m1, XSDFEC_FEC_CODE_ADDR,
                              Sub32(m1.dev.config.code, 1))
    IN  Result(xsdfec_cfg_axi_streams(m2), 0, NoData)

----------------------------------------------------------------------------
(* Poll.  The masks are sets of the flags' names. *)

\* the mask xsdfec_poll returns (file->private_data is set by every open)
xsdfec_poll(dev) ==
    IF dev.state = XSDFEC_NEEDS_RESET THEN { "POLLIN", "POLLRDNORM" }
    ELSE { "POLLPRI", "POLLERR" }

----------------------------------------------------------------------------
(* The interrupt thread. *)

xsdfec_log_ecc_errors(m, ecc_err) ==
    LET cecc == BitAnd(ecc_err, XSDFEC_ECC_ISR_SBE)
        uecc == BitAnd(ecc_err, XSDFEC_ECC_ISR_MBE)
        m1 == [m EXCEPT !.dev.uecc_count = @ + hweight32(uecc),
                        !.dev.cecc_count = @ + hweight32(cecc)]
    IN  xsdfec_regwrite(m1, XSDFEC_ECC_ISR_ADDR, 0)

xsdfec_log_isr_errors(m, isr_err) ==
    LET m1 == [m EXCEPT !.dev.isr_err_count = @ + hweight32(isr_err)]
    IN  xsdfec_regwrite(m1, XSDFEC_ECC_ISR_ADDR, 0)

\* xsdfec_reset_required doing nothing (used to mutate)
xsdfec_reset_required_skipped(m) == m

xsdfec_reset_required(m) == [m EXCEPT !.dev.state = XSDFEC_NEEDS_RESET]

\* wake_up_interruptible(&xsdfec->waitq): the call is logged with the state
\* a woken waiter would find at that moment
wake_up_interruptible(m) ==
    [m EXCEPT !.log = Append(@, LogEntry("wake_up_interruptible", -1,
                                         m.dev.state, m.dev.wr_protect))]

\* xsdfec_irq_thread waking the waiters before it marks the device (used to
\* mutate)
xsdfec_irq_thread_wake_first(m) ==
    LET m1 == xsdfec_isr_enable(m, FALSE).m
        m2 == xsdfec_ecc_isr_enable(m1, FALSE).m
        ecc_err == xsdfec_regread(m2, XSDFEC_ECC_ISR_ADDR)
        isr_err == xsdfec_regread(m2, XSDFEC_ISR_ADDR)
        m3 == Read(Read(m2, XSDFEC_ECC_ISR_ADDR), XSDFEC_ISR_ADDR)
        fatal == BitAnd(ecc_err, XSDFEC_ECC_ISR_MBE) # 0
                 \/ BitAnd(isr_err, XSDFEC_ISR_MASK) # 0
        m3w == IF fatal THEN wake_up_interruptible(m3) ELSE m3
        m4 == IF BitAnd(ecc_err, XSDFEC_ECC_ISR_MBE) # 0
              THEN xsdfec_reset_required(xsdfec_log_ecc_errors(m3w, ecc_err))
              ELSE IF BitAnd(isr_err, XSDFEC_ISR_MASK) # 0
              THEN xsdfec_reset_required(xsdfec_log_isr_errors(m3w, isr_err))
              ELSE IF BitAnd(ecc_err, XSDFEC_ECC_ISR_SBE) # 0
              THEN xsdfec_log_ecc_errors(m3w, ecc_err)
              ELSE m3w
        irqret == IF fatal \/ BitAnd(ecc_err, XSDFEC_ECC_ISR_SBE) # 0
                  THEN IRQ_HANDLED ELSE IRQ_NONE
        m5 == xsdfec_isr_enable(m4, TRUE).m
        m6 == xsdfec_ecc_isr_enable(m5, TRUE).m
    IN  Result(m6, irqret, [kind |-> "irq", fatal_err |-> fatal])

xsdfec_irq_thread(m) ==
    LET m1 == xsdfec_isr_enable(m, FALSE).m
        m2 == xsdfec_ecc_isr_enable(m1, FALSE).m
        ecc_err == xsdfec_regread(m2, XSDFEC_ECC_ISR_ADDR)
        isr_err == xsdfec_regread(m2, XSDFEC_ISR_ADDR)
        m3 == Read(Read(m2, XSDFEC_ECC_ISR_ADDR), XSDFEC_ISR_ADDR)
        fatal == BitAnd(ecc_err, XSDFEC_ECC_ISR_MBE) # 0
                 \/ BitAnd(isr_err, XSDFEC_ISR_MASK) # 0
        m4 == IF BitAnd(ecc_err, XSDFEC_ECC_ISR_MBE) # 0
              THEN xsdfec_reset_required(xsdfec_log_ecc_errors(m3, ecc_err))
              ELSE IF BitAnd(isr_err, XSDFEC_ISR_MASK) # 0
              THEN xsdfec_reset_required(xsdfec_log_isr_errors(m3, isr_err))
              ELSE IF BitAnd(ecc_err, XSDFEC_ECC_ISR_SBE) # 0
              THEN xsdfec_log_ecc_errors(m3, ecc_err)
              ELSE m3
        irqret == IF fatal \/ BitAnd(ecc_err, XSDFEC_ECC_ISR_SBE) # 0
                  THEN IRQ_HANDLED ELSE IRQ_NONE
        m4w == IF fatal THEN wake_up_interruptible(m4) ELSE m4
        m5 == xsdfec_isr_enable(m4w, TRUE).m
        m6 == xsdfec_ecc_isr_enable(m5, TRUE).m
    IN  Result(m6, irqret, [kind |-> "irq", fatal_err |-> fatal])

----------------------------------------------------------------------------
(* Probe: the device structure and the register window once xsdfec_probe   *)
(* has returned.                                                           *)

\* the register window at reset: both interrupt classes masked
HwReset ==
    [a \in RegSpace |->
        IF a = XSDFEC_IMR_ADDR THEN XSDFEC_ISR_MASK
        ELSE IF a = XSDFEC_ECC_IMR_ADDR THEN XSDFEC_ECC_ISR_MASK
        ELSE 0]

\* what the device tree can say: the code and the stream settings
DeviceTrees ==
    { [code |-> XSDFEC_LDPC_CODE,
       din_width |-> XSDFEC_1x128b, din_word_include |-> XSDFEC_FIXED_VALUE,
       dout_width |-> XSDFEC_1x128b, dout_word_include |-> XSDFEC_FIXED_VALUE],
      [code |-> XSDFEC_TURBO_CODE,
       din_width |-> XSDFEC_2x128b, din_word_include |-> XSDFEC_IN_BLOCK,
       dout_width |-> XSDFEC_4x128b,
       dout_word_include |-> XSDFEC_PER_AXI_TRANSACTION] }

\* devm_kzalloc: everything zero
ZeroDev ==
    [state |-> XSDFEC_INIT,
     config |-> [fec_id |-> 0, code |-> XSDFEC_CODE_INVALID,
                 order |-> XSDFEC_INVALID_ORDER,
                 din_width |-> 0, din_word_include |-> 0,
                 dout_width |-> 0, dout_word_include |-> 0],
     wr_protect |-> FALSE,
     isr_err_count |-> 0, cecc_count |-> 0, uecc_count |-> 0,
     open_count |-> 0]

xsdfec_parse_of(m, dt) ==
    LET m0 == [m EXCEPT !.dev.config.code = dt.code,
                        !.dev.config.din_word_include = dt.din_word_include,
                        !.dev.config.din_width = dt.din_width,
                        !.dev.config.dout_word_include = dt.dout_word_include,
                        !.dev.config.dout_width = dt.dout_width]
        m1 == xsdfec_regwrite(m0, XSDFEC_FEC_CODE_ADDR,
                              Sub32(m0.dev.config.code, 1))
    IN  xsdfec_cfg_axi_streams(m1)

\* atomic_set(&xsdfec->open_count, 1) once the device node exists
xsdfec_probe(dt) ==
    LET m == xsdfec_parse_of(Machine(ZeroDev, HwReset, <<>>), dt)
    IN  [m EXCEPT !.dev.open_count = 1]

----------------------------------------------------------------------------
(* What the callers and the hardware can supply. *)

\* bytes copy_from_user / copy_to_user leave uncopied
NotCopied == {0, 4}

Orders == XSDFEC_INVALID_ORDER..XSDFEC_ORDER_MAX
Bypasses == 0..2
IrqArgs ==
    { [enable_isr |-> TRUE, enable_ecc_isr |-> TRUE],
      [enable_isr |-> FALSE, enable_ecc_isr |-> FALSE] }
TurboArgs == { [alg |-> 1, scale |-> 5] }

\* a code that fits: code id 0, two layers, two qc words
LdpcGood ==
    [code_id |-> 0, n |-> 64800, k |-> 32400, psize |-> 360,
     nlayers |-> 2, nqc |-> 2, nmqc |-> 3, nm |-> 5, norm_type |-> 1,
     no_packing |-> 1, special_qc |-> 0, no_final_parity |-> 1,
     max_schedule |-> 2, sc_off |-> 1, la_off |-> 1, qc_off |-> 1,
     sc_table |-> <<7, 9>>, la_table |-> <<11, 13>>, qc_table |-> <<17, 19>>]

\* a code id past the register block
LdpcBadId == [LdpcGood EXCEPT !.code_id = 32]

\* a layer count that overruns the sc table at its offset
LdpcOverrun == [LdpcGood EXCEPT !.code_id = 1, !.nlayers = 255]

\* the la table at word 4 * 255 = 1020: four more words overrun its 1023
LdpcLaOverrun ==
    [LdpcGood EXCEPT !.la_off = 255, !.nlayers = 4, !.psize = 96,
                     !.sc_table = <<7, 9, 7, 9>>,
                     !.la_table = <<11, 13, 11, 13>>]

\* the qc table at word 4 * 2048 = 8192: past its 8191 words
LdpcQcOverrun == [LdpcGood EXCEPT !.code_id = 1, !.qc_off = 2048, !.n = 16200]

LdpcArgs == { LdpcGood, LdpcBadId }

\* the descriptors LdpcSpec programs: one that fits, and one that fails at
\* each step that can fail (register 0, the sc, the la and the qc table)
LdpcCodes ==
    { LdpcGood, LdpcBadId, LdpcOverrun, LdpcLaOverrun, LdpcQcOverrun }

\* what a caller of get_ldpc_code leaves in the structure
LdpcQuery(code_id, nlayers, nqc) ==
    [code_id |-> code_id, n |-> 0, k |-> 0, psize |-> 0,
     nlayers |-> nlayers, nqc |-> nqc, nmqc |-> 0, nm |-> 0, norm_type |-> 0,
     no_packing |-> 0, special_qc |-> 0, no_final_parity |-> 0,
     max_schedule |-> 0, sc_off |-> 0, la_off |-> 0, qc_off |-> 0,
     sc_table |-> <<>>, la_table |-> <<>>, qc_table |-> <<>>]

LdpcQueries == { LdpcQuery(0, 2, 2) }

\* the lookups of LdpcSpec: the two code ids it programs and one past the
\* register block
LdpcLookups == { LdpcQuery(0, 2, 2), LdpcQuery(1, 2, 2), LdpcQuery(32, 2, 2) }

\* values the hardware latches in the ECC status register (single-bit
\* errors in bits 0-10, multi-bit errors in bits 11-21) and in the interrupt
\* status register (bits 0-5)
StatusEvents ==
    { [ecc |-> 0, isr |-> 0],       \* nothing pending
      [ecc |-> 1, isr |-> 0],       \* one single-bit error
      [ecc |-> 0, isr |-> 3],       \* two interrupt-status errors
      [ecc |-> 6145, isr |-> 1] }   \* two multi-bit errors, a single-bit
                                    \* one and a status error

----------------------------------------------------------------------------
(* The commands. *)

Commands ==
    { "XSDFEC_START_DEV", "XSDFEC_STOP_DEV", "XSDFEC_CLEAR_STATS",
      "XSDFEC_GET_STATS", "XSDFEC_GET_STATUS", "XSDFEC_GET_CONFIG",
      "XSDFEC_SET_DEFAULT_CONFIG", "XSDFEC_SET_IRQ", "XSDFEC_SET_TURBO",
      "XSDFEC_GET_TURBO", "XSDFEC_ADD_LDPC_CODE_PARAMS",
      "XSDFEC_GET_LDPC_CODE_PARAMS", "XSDFEC_SET_ORDER",
      "XSDFEC_SET_BYPASS", "XSDFEC_IS_ACTIVE" }

\* commands of the driver's magic that the switch does not know, and
\* commands of another magic
OtherCommands == { "XSDFEC_UNDEFINED", "FOREIGN" }

\* the commands that carry no argument (_IOC_NONE)
NoArgCommands ==
    { "XSDFEC_START_DEV", "XSDFEC_STOP_DEV", "XSDFEC_CLEAR_STATS",
      "XSDFEC_SET_DEFAULT_CONFIG", "XSDFEC_UNDEFINED", "FOREIGN" }

\* the commands the gate lets through in XSDFEC_NEEDS_RESET
ResetCommands ==
    { "XSDFEC_SET_DEFAULT_CONFIG", "XSDFEC_GET_STATUS", "XSDFEC_GET_STATS",
      "XSDFEC_CLEAR_STATS" }

\* the argument pointer: usable, NULL, or failing access_ok
ArgPointers == { "ok", "null", "noaccess" }

\* the gate with the XSDFEC_NEEDS_RESET test dropped (used to mutate)
GateErrorNoResetTest(dev, cmd, arg) ==
    IF cmd = "FOREIGN" THEN -ENOTTY
    ELSE IF cmd \notin NoArgCommands /\ arg = "null" THEN -EINVAL
    ELSE IF cmd \notin NoArgCommands /\ arg = "noaccess" THEN -EFAULT
    ELSE IF cmd \notin Commands THEN -EINVAL
    ELSE 0

\* xsdfec_dev_ioctl up to its switch: the error it returns, 0 when the
\* command goes on to its function
GateError(dev, cmd, arg) ==
    IF dev.state = XSDFEC_NEEDS_RESET /\ cmd \notin ResetCommands THEN -EPERM
    ELSE IF cmd = "FOREIGN" THEN -ENOTTY
    ELSE IF cmd \notin NoArgCommands /\ arg = "null" THEN -EINVAL
    ELSE IF cmd \notin NoArgCommands /\ arg = "noaccess" THEN -EFAULT
    ELSE IF cmd \notin Commands THEN -EINVAL
    ELSE 0

----------------------------------------------------------------------------
(* The state machine. *)

Init ==
    \E dt \in DeviceTrees :
        /\ xsdfec = xsdfec_probe(dt).dev
        /\ regs = xsdfec_probe(dt).regs
        /\ pc = "idle"
        /\ last = "none"
        /\ ret = 0
        /\ hwlog = <<>>
        /\ uin = NoData
        /\ uout = NoData
        /\ waitq = [w \in 1..MaxWaiters |-> "away"]
        /\ at = [irq |-> "idle", err |-> <<>>, ctl |-> "idle",
                 read |-> <<>>, added |-> <<0, 0, 0>>]
        /\ files = [p \in 1..MaxProcs |-> "closed"]

\* the machine a handler starts from
M == Machine(xsdfec, regs, <<>>)

\* what a caller passes in
Input(value, notcopied) ==
    [kind |-> "in", value |-> value, notcopied |-> notcopied]

\* a handler returns: input is what it was given, r is its Result
Done(cmd, input, r) ==
    /\ xsdfec' = r.m.dev
    /\ regs' = r.m.regs
    /\ hwlog' = r.m.log
    /\ ret' = r.err
    /\ uin' = input
    /\ uout' = r.out
    /\ last' = cmd
    /\ pc' = "idle"
    /\ UNCHANGED <<waitq, at, files>>

\* xsdfec_dev_ioctl, up to the switch.  A command that fails the gate
\* returns at once.  One that passes goes on to its function in a later
\* step, so that the interrupt thread can run in between, and pc keeps what
\* the gate let through: the command itself when the state was
\* XSDFEC_NEEDS_RESET, where the gate tells the commands apart, and "passed"
\* in the other states, where it lets every command through and any of them
\* may be the one in flight.  The record of the previous handler is dropped
\* when a new call enters.
Ioctl(cmd, arg) ==
    /\ pc = "idle"
    /\ IF GateError(xsdfec, cmd, arg) # 0
       THEN Done(cmd, NoData,
                 Result(M, GateError(xsdfec, cmd, arg), NoData))
       ELSE /\ pc' = IF xsdfec.state = XSDFEC_NEEDS_RESET
                     THEN cmd ELSE "passed"
            /\ last' = "none"
            /\ ret' = 0
            /\ hwlog' = <<>>
            /\ uin' = NoData
            /\ uout' = NoData
            /\ UNCHANGED <<xsdfec, regs, waitq, at, files>>

\* the command cmd is in flight, past the gate
InFlight(cmd) == pc = "passed" \/ pc = cmd

StartDev ==
    /\ InFlight("XSDFEC_START_DEV")
    /\ Done("XSDFEC_START_DEV", NoData, xsdfec_start(M))

StopDev ==
    /\ InFlight("XSDFEC_STOP_DEV")
    /\ Done("XSDFEC_STOP_DEV", NoData, xsdfec_stop(M))

ClearStats ==
    /\ InFlight("XSDFEC_CLEAR_STATS")
    /\ Done("XSDFEC_CLEAR_STATS", NoData, xsdfec_clear_stats(M))

GetStats(notcopied) ==
    /\ InFlight("XSDFEC_GET_STATS")
    /\ Done("XSDFEC_GET_STATS", NoData, xsdfec_get_stats(M, notcopied))

GetStatus(notcopied) ==
    /\ InFlight("XSDFEC_GET_STATUS")
    /\ Done("XSDFEC_GET_STATUS", NoData, xsdfec_get_status(M, notcopied))

GetConfig(notcopied) ==
    /\ InFlight("XSDFEC_GET_CONFIG")
    /\ Done("XSDFEC_GET_CONFIG", NoData, xsdfec_get_config(M, notcopied))

SetDefaultConfig ==
    /\ InFlight("XSDFEC_SET_DEFAULT_CONFIG")
    /\ Done("XSDFEC_SET_DEFAULT_CONFIG", NoData,
            xsdfec_set_default_config(M))

SetIrq(irq, notcopied) ==
    /\ InFlight("XSDFEC_SET_IRQ")
    /\ Done("XSDFEC_SET_IRQ", Input(irq, notcopied),
            xsdfec_set_irq(M, irq, notcopied))

SetTurbo(turbo, notcopied) ==
    /\ InFlight("XSDFEC_SET_TURBO")
    /\ Done("XSDFEC_SET_TURBO", Input(turbo, notcopied),
            xsdfec_set_turbo(M, turbo, notcopied))

GetTurbo(notcopied) ==
    /\ InFlight("XSDFEC_GET_TURBO")
    /\ Done("XSDFEC_GET_TURBO", NoData, xsdfec_get_turbo(M, notcopied))

AddLdpc(ldpc, notcopied) ==
    /\ InFlight("XSDFEC_ADD_LDPC_CODE_PARAMS")
    /\ Done("XSDFEC_ADD_LDPC_CODE_PARAMS", Input(ldpc, notcopied),
            xsdfec_add_ldpc(M, ldpc, notcopied))

GetLdpc(query, notcopied_in, notcopied_out) ==
    /\ InFlight("XSDFEC_GET_LDPC_CODE_PARAMS")
    /\ Done("XSDFEC_GET_LDPC_CODE_PARAMS", Input(query, notcopied_in),
            xsdfec_get_ldpc_code_params(M, query, notcopied_in,
                                        notcopied_out))

\* the argument of the next two is read through the pointer, with no copy
SetOrder(order) ==
    /\ InFlight("XSDFEC_SET_ORDER")
    /\ Done("XSDFEC_SET_ORDER", Input(order, 0), xsdfec_set_order(M, order))

SetBypass(bypass) ==
    /\ InFlight("XSDFEC_SET_BYPASS")
    /\ Done("XSDFEC_SET_BYPASS", Input(bypass, 0),
            xsdfec_set_bypass(M, bypass))

IsActive ==
    /\ InFlight("XSDFEC_IS_ACTIVE")
    /\ Done("XSDFEC_IS_ACTIVE", NoData, xsdfec_is_active(M))

\* what wake_up_interruptible does to the waiters: every one parked on the
\* queue is woken
Wake(q, log) ==
    IF /\ \E w \in DOMAIN q : q[w] = "parked"
       /\ \E i \in 1..Len(log) : log[i].op = "wake_up_interruptible"
    THEN [w \in DOMAIN q |->
             IF q[w] = "parked" THEN "woken" ELSE q[w]]
    ELSE q

\* the interrupt thread runs to its end
IrqThread ==
    /\ xsdfec.isr_err_count + xsdfec.cecc_count + xsdfec.uecc_count
           < MaxErrors
    /\ \E r \in { xsdfec_irq_thread(M) } :
           /\ xsdfec' = r.m.dev
           /\ regs' = r.m.regs
           /\ hwlog' = r.m.log
           /\ ret' = r.err
           /\ uin' = NoData
           /\ uout' = NoData
           /\ last' = "irq"
           /\ pc' = pc
           /\ waitq' = Wake(waitq, r.m.log)
           /\ UNCHANGED <<at, files>>

\* the hardware latches errors in its two status registers (no handler
\* returns in this step: the record of the last handler is dropped)
HwEvent(ev) ==
    /\ regs' = [regs EXCEPT ![XSDFEC_ECC_ISR_ADDR] = ev.ecc,
                            ![XSDFEC_ISR_ADDR] = ev.isr]
    /\ regs' # regs
    /\ last' = "none"
    /\ ret' = 0
    /\ hwlog' = <<>>
    /\ uin' = NoData
    /\ uout' = NoData
    /\ UNCHANGED <<xsdfec, pc, waitq, at, files>>

Next ==
    \/ \E cmd \in Commands \cup OtherCommands, arg \in ArgPointers :
           Ioctl(cmd, arg)
    \/ StartDev
    \/ StopDev
    \/ ClearStats
    \/ \E notcopied \in NotCopied : GetStats(notcopied)
    \/ \E notcopied \in NotCopied : GetStatus(notcopied)
    \/ \E notcopied \in NotCopied : GetConfig(notcopied)
    \/ SetDefaultConfig
    \/ \E irq \in IrqArgs, notcopied \in NotCopied : SetIrq(irq, notcopied)
    \/ \E turbo \in TurboArgs, notcopied \in NotCopied :
           SetTurbo(turbo, notcopied)
    \/ \E notcopied \in NotCopied : GetTurbo(notcopied)
    \/ \E ldpc \in LdpcArgs, notcopied \in NotCopied : AddLdpc(ldpc, notcopied)
    \/ \E query \in LdpcQueries, nin \in NotCopied, nout \in NotCopied :
           GetLdpc(query, nin, nout)
    \/ \E order \in Orders : SetOrder(order)
    \/ \E bypass \in Bypasses : SetBypass(bypass)
    \/ IsActive
    \/ IrqThread
    \/ \E ev \in StatusEvents : HwEvent(ev)

Spec == Init /\ [][Next]_vars

----------------------------------------------------------------------------
(* Programming and reading back LDPC codes: the same actions, for the      *)
(* commands below and the descriptors of LdpcCodes.  set_order and start   *)
(* are there because start raises the write protection, which add_ldpc     *)
(* lowers.                                                                 *)

LdpcCommands ==
    { "XSDFEC_SET_ORDER", "XSDFEC_START_DEV", "XSDFEC_ADD_LDPC_CODE_PARAMS",
      "XSDFEC_GET_LDPC_CODE_PARAMS" }

LdpcNext ==
    \/ \E cmd \in LdpcCommands : Ioctl(cmd, "ok")
    \/ SetOrder(XSDFEC_MAINTAIN_ORDER)
    \/ StartDev
    \/ \E ldpc \in LdpcCodes, notcopied \in NotCopied :
           AddLdpc(ldpc, notcopied)
    \/ \E query \in LdpcLookups, nin \in NotCopied, nout \in NotCopied :
           GetLdpc(query, nin, nout)

LdpcSpec == Init /\ [][LdpcNext]_vars

----------------------------------------------------------------------------
(* Programming and reading back the turbo parameters: the same actions,    *)
(* for the commands below and every scale and algorithm a caller can set.  *)
(* set_order and start are there because start raises the write            *)
(* protection, which set_turbo lowers.                                     *)

\* struct xsdfec_turbo: a scale of four bits and an algorithm selector
TurboSettings == [alg : 0..1, scale : 0..XSDFEC_TURBO_SCALE_MASK]

TurboCommands ==
    { "XSDFEC_SET_ORDER", "XSDFEC_START_DEV", "XSDFEC_SET_TURBO",
      "XSDFEC_GET_TURBO" }

TurboNext ==
    \/ \E cmd \in TurboCommands : Ioctl(cmd, "ok")
    \/ SetOrder(XSDFEC_MAINTAIN_ORDER)
    \/ StartDev
    \/ \E turbo \in TurboSettings, notcopied \in NotCopied :
           SetTurbo(turbo, notcopied)
    \/ \E notcopied \in NotCopied : GetTurbo(notcopied)

TurboSpec == Init /\ [][TurboNext]_vars

----------------------------------------------------------------------------
(* Opening and releasing the device node.  The processes are 1..MaxProcs.  *)
(* One that has the node closed may call open.  One that holds the device  *)
(* may release it: the kernel calls release only on a file for which open  *)
(* returned 0.                                                             *)

Procs == 1..MaxProcs

\* xsdfec_dev_open as far as atomic_dec_and_test.  When the counter reaches
\* zero, open returns 0 in this step; when it does not, the caller stands
\* before the atomic_inc of the failing branch.
OpenEnter(p) ==
    /\ files[p] = "closed"
    /\ LET r == xsdfec_dev_open(xsdfec)
       IN  /\ xsdfec' = r.dev
           /\ IF r.taken
              THEN /\ files' = [files EXCEPT ![p] = "open"]
                   /\ last' = "open"
                   /\ uin' = Input(p, 0)
              ELSE /\ files' = [files EXCEPT ![p] = "busy"]
                   /\ last' = "none"
                   /\ uin' = NoData
    /\ ret' = 0
    /\ UNCHANGED <<regs, pc, hwlog, uout, waitq, at>>

\* the failing branch of xsdfec_dev_open: atomic_inc, return -EBUSY
OpenBusy(p) ==
    /\ files[p] = "busy"
    /\ xsdfec' = xsdfec_dev_open_busy(xsdfec)
    /\ files' = [files EXCEPT ![p] = "closed"]
    /\ last' = "open"
    /\ ret' = -EBUSY
    /\ uin' = Input(p, 0)
    /\ UNCHANGED <<regs, pc, hwlog, uout, waitq, at>>

Release(p) ==
    /\ files[p] = "open"
    /\ xsdfec' = xsdfec_dev_release(xsdfec)
    /\ files' = [files EXCEPT ![p] = "closed"]
    /\ last' = "release"
    /\ ret' = 0
    /\ uin' = Input(p, 0)
    /\ UNCHANGED <<regs, pc, hwlog, uout, waitq, at>>

OpenNext ==
    \/ \E p \in Procs : OpenEnter(p)
    \/ \E p \in Procs : OpenBusy(p)
    \/ \E p \in Procs : Release(p)

OpenSpec == Init /\ [][OpenNext]_vars

----------------------------------------------------------------------------
(* Waiting for the device.  The threads that poll are 1..MaxWaiters.  A     *)
(* call of poll runs xsdfec_poll, which puts the caller on xsdfec->waitq    *)
(* and returns a mask; the caller then either returns with that mask or     *)
(* sleeps on the queue, which depends on the events it asked for (both are  *)
(* allowed here).  A sleeper that is woken runs xsdfec_poll again and       *)
(* returns with the mask it gets.  The commands are those that move the     *)
(* device between its states.                                              *)

Waiters == 1..MaxWaiters

\* what a call of poll hands back: the mask of xsdfec_poll
Polled(mask) == [kind |-> "poll", mask |-> mask]

Poll(w) ==
    /\ waitq[w] = "away"
    /\ \E sleeps \in BOOLEAN :
           IF sleeps
           THEN /\ waitq' = [waitq EXCEPT ![w] = "parked"]
                /\ last' = "none"
                /\ uin' = NoData
                /\ uout' = NoData
           ELSE /\ waitq' = waitq
                /\ last' = "poll"
                /\ uin' = Input(w, 0)
                /\ uout' = Polled(xsdfec_poll(xsdfec))
    /\ ret' = 0
    /\ hwlog' = <<>>
    /\ UNCHANGED <<xsdfec, regs, pc, at, files>>

Repoll(w) ==
    /\ waitq[w] = "woken"
    /\ waitq' = [waitq EXCEPT ![w] = "away"]
    /\ last' = "poll"
    /\ ret' = 0
    /\ hwlog' = <<>>
    /\ uin' = Input(w, 0)
    /\ uout' = Polled(xsdfec_poll(xsdfec))
    /\ UNCHANGED <<xsdfec, regs, pc, at, files>>

WaitCommands ==
    { "XSDFEC_SET_ORDER", "XSDFEC_START_DEV", "XSDFEC_SET_DEFAULT_CONFIG" }

WaitNext ==
    \/ \E cmd \in WaitCommands : Ioctl(cmd, "ok")
    \/ SetOrder(XSDFEC_MAINTAIN_ORDER)
    \/ StartDev
    \/ SetDefaultConfig
    \/ IrqThread
    \/ \E ev \in StatusEvents : HwEvent(ev)
    \/ \E w \in Waiters : Poll(w)
    \/ \E w \in Waiters : Repoll(w)

\* a woken sleeper is scheduled: it comes to run again
WaitSpec ==
    /\ Init
    /\ [][WaitNext]_vars
    /\ \A w \in Waiters : WF_vars(Repoll(w))

----------------------------------------------------------------------------
(* The counters, one atomic operation at a time.  The interrupt thread,     *)
(* clear_stats and get_stats take one step for each atomic_* call, so that  *)
(* the calls of one interleave with those of the others; what the           *)
(* interrupt thread does before its first and after its last atomic call   *)
(* is one step each.  The caller of clear_stats / get_stats makes one call  *)
(* at a time.  at.added keeps, for each counter, the sum of the increments  *)
(* added since the counter was last set.                                   *)

Counters == { "isr_err_count", "cecc_count", "uecc_count" }

\* the counters in the order of struct xsdfec_stats, which is the order
\* xsdfec_get_stats reads them in
StatsOrder == <<"isr_err_count", "cecc_count", "uecc_count">>

\* the place of counter c in that order
StatsIndex(c) == CHOOSE i \in 1..3 : StatsOrder[i] = c

\* the atomic operations on a counter of value v: the new value
atomic_set(v, i) == i
atomic_read(v) == v
atomic_add(i, v) == v + i

\* atomic_add_return losing its addition (used to mutate)
atomic_add_return_lost(i, v) == v

atomic_add_return(i, v) == v + i

\* xsdfec_irq_thread up to its branches: both classes masked, the two
\* status registers read
xsdfec_irq_thread_enter(m) ==
    LET m1 == xsdfec_isr_enable(m, FALSE).m
        m2 == xsdfec_ecc_isr_enable(m1, FALSE).m
    IN  Read(Read(m2, XSDFEC_ECC_ISR_ADDR), XSDFEC_ISR_ADDR)

\* the branch taken on the status words read: the first counter to add to,
\* "exit" when there is none
FirstCounter(ecc_err, isr_err) ==
    IF BitAnd(ecc_err, XSDFEC_ECC_ISR_MBE) # 0 THEN "uecc_count"
    ELSE IF BitAnd(isr_err, XSDFEC_ISR_MASK) # 0 THEN "isr_err_count"
    ELSE IF BitAnd(ecc_err, XSDFEC_ECC_ISR_SBE) # 0 THEN "uecc_count"
    ELSE "exit"

\* xsdfec_log_ecc_errors adds to uecc_count, then to cecc_count;
\* xsdfec_log_isr_errors adds to isr_err_count
NextCounter(c) == IF c = "uecc_count" THEN "cecc_count" ELSE "exit"

\* what is added to counter c
Increment(c, ecc_err, isr_err) ==
    IF c = "uecc_count" THEN hweight32(BitAnd(ecc_err, XSDFEC_ECC_ISR_MBE))
    ELSE IF c = "cecc_count"
    THEN hweight32(BitAnd(ecc_err, XSDFEC_ECC_ISR_SBE))
    ELSE hweight32(isr_err)

\* xsdfec_irq_thread after the atomic calls of its branch: the status is
\* cleared, the device marked and the waiters woken on a fatal error, both
\* classes unmasked
xsdfec_irq_thread_exit(m, ecc_err, isr_err) ==
    LET counted == FirstCounter(ecc_err, isr_err) # "exit"
        fatal == BitAnd(ecc_err, XSDFEC_ECC_ISR_MBE) # 0
                 \/ BitAnd(isr_err, XSDFEC_ISR_MASK) # 0
        m1 == IF counted THEN xsdfec_regwrite(m, XSDFEC_ECC_ISR_ADDR, 0)
              ELSE m
        m2 == IF fatal THEN wake_up_interruptible(xsdfec_reset_required(m1))
              ELSE m1
        m3 == xsdfec_isr_enable(m2, TRUE).m
        m4 == xsdfec_ecc_isr_enable(m3, TRUE).m
    IN  Result(m4, IF counted THEN IRQ_HANDLED ELSE IRQ_NONE,
               [kind |-> "irq", fatal_err |-> fatal])

\* a step inside a handler: nothing has returned
Inside ==
    /\ last' = "none"
    /\ ret' = 0
    /\ hwlog' = <<>>
    /\ uin' = NoData
    /\ uout' = NoData

\* at.irq is "idle", the counter the interrupt thread is about to add to,
\* or "exit"
IrqEnter ==
    /\ at.irq = "idle"
    /\ xsdfec.isr_err_count + xsdfec.cecc_count + xsdfec.uecc_count
           < MaxTally
    /\ LET m == xsdfec_irq_thread_enter(M)
           ecc_err == xsdfec_regread(m, XSDFEC_ECC_ISR_ADDR)
           isr_err == xsdfec_regread(m, XSDFEC_ISR_ADDR)
       IN  /\ regs' = m.regs
           /\ at' = [at EXCEPT !.irq = FirstCounter(ecc_err, isr_err),
                               !.err = <<ecc_err, isr_err>>]
    /\ Inside
    /\ UNCHANGED <<xsdfec, pc, waitq, files>>

\* atomic_add_return / atomic_add on counter c
IrqAdd(c) ==
    /\ at.irq = c
    /\ LET i == Increment(c, at.err[1], at.err[2])
       IN  /\ xsdfec' = [xsdfec EXCEPT ![c] =
                            IF c = "cecc_count" THEN atomic_add(i, @)
                            ELSE atomic_add_return(i, @)]
           /\ at' = [at EXCEPT !.irq = NextCounter(c),
                               !.added[StatsIndex(c)] = @ + i]
    /\ Inside
    /\ UNCHANGED <<regs, pc, waitq, files>>

IrqExit ==
    /\ at.irq = "exit"
    /\ LET r == xsdfec_irq_thread_exit(M, at.err[1], at.err[2])
       IN  /\ xsdfec' = r.m.dev
           /\ regs' = r.m.regs
           /\ hwlog' = r.m.log
           /\ ret' = r.err
           /\ waitq' = Wake(waitq, r.m.log)
    /\ at' = [at EXCEPT !.irq = "idle", !.err = <<>>]
    /\ last' = "irq"
    /\ uin' = NoData
    /\ uout' = NoData
    /\ UNCHANGED <<pc, files>>

\* the order of the atomic_set calls of xsdfec_clear_stats
ClearAfter(c) ==
    IF c = "isr_err_count" THEN "uecc_count"
    ELSE IF c = "uecc_count" THEN "cecc_count"
    ELSE "idle"

\* atomic_set(&xsdfec->c, 0) of xsdfec_clear_stats; at.ctl is the counter
\* clear_stats is about to set
ClearStat(c) ==
    /\ pc = "idle"
    /\ \/ at.ctl = "idle" /\ c = "isr_err_count"
       \/ at.ctl = c
    /\ xsdfec' = [xsdfec EXCEPT ![c] = atomic_set(@, 0)]
    /\ at' = [at EXCEPT !.ctl = ClearAfter(c),
                        !.added[StatsIndex(c)] = 0]
    /\ last' = IF ClearAfter(c) = "idle" THEN "XSDFEC_CLEAR_STATS"
               ELSE "none"
    /\ ret' = 0
    /\ hwlog' = <<>>
    /\ uin' = NoData
    /\ uout' = NoData
    /\ UNCHANGED <<regs, pc, waitq, files>>

\* the struct xsdfec_stats filled from the values read
Stats(read) ==
    [kind |-> "stats", isr_err_count |-> read[1], cecc_count |-> read[2],
     uecc_count |-> read[3]]

\* user_stats.c = atomic_read(&xsdfec->c) of xsdfec_get_stats: at.ctl is
\* "get" from the first read on and at.read the values read; after the last
\* read user_stats is copied out and the call returns
ReadStat(c) ==
    /\ pc = "idle"
    /\ at.ctl = IF at.read = <<>> THEN "idle" ELSE "get"
    /\ c = StatsOrder[Len(at.read) + 1]
    /\ LET read == Append(at.read, atomic_read(xsdfec[c]))
       IN  IF Len(read) = Len(StatsOrder)
           THEN /\ at' = [at EXCEPT !.ctl = "idle", !.read = <<>>]
                /\ last' = "XSDFEC_GET_STATS"
                /\ uout' = Stats(read)
           ELSE /\ at' = [at EXCEPT !.ctl = "get", !.read = read]
                /\ last' = "none"
                /\ uout' = NoData
    /\ ret' = 0
    /\ hwlog' = <<>>
    /\ uin' = NoData
    /\ UNCHANGED <<xsdfec, regs, pc, waitq, files>>

CountNext ==
    \/ \E ev \in StatusEvents : HwEvent(ev)
    \/ IrqEnter
    \/ \E c \in Counters : IrqAdd(c)
    \/ IrqExit
    \/ \E c \in Counters : ClearStat(c)
    \/ \E c \in Counters : ReadStat(c)

CountSpec == Init /\ [][CountNext]_vars

----------------------------------------------------------------------------
(* Properties.  A step in which a command's function returns is told from  *)
(* the others by pc and last; the arguments and the register accesses of   *)
(* that function are in uin and hwlog of the state after the step.         *)

AllCommands == Commands \cup OtherCommands

\* the gate of xsdfec_dev_ioctl turns the command away in this step
GateReturns == pc = "idle" /\ pc' = "idle" /\ last' \in AllCommands

\* the function of cmd runs and returns in this step
Returns(cmd) == pc # "idle" /\ pc' = "idle" /\ last' = cmd

\* xsdfec_irq_thread runs in this step
IrqRuns == last' = "irq" /\ pc' = pc

\* the calls of xsdfec_regwrite in a log, in order
RegWrites(log) == SelectSeq(log, LAMBDA e : e.op = "regwrite")

\* the calls of xsdfec_regwrite on the two protection registers, in order
ProtectWrites(log) ==
    SelectSeq(log, LAMBDA e : /\ e.op = "regwrite"
                              /\ e.addr \in { XSDFEC_CODE_WR_PROTECT_ADDR,
                                              XSDFEC_AXI_WR_PROTECT_ADDR })

\* C1: in XSDFEC_NEEDS_RESET the gate lets through only
\* set_default_config, get_status, get_stats and clear_stats; every other
\* command returns -EPERM from the gate, with no register read or write and
\* the device structure (state, configuration, write-protect flag,
\* counters) and the registers as they were.
C1_NeedsResetGate ==
    [][ (pc = "idle" /\ xsdfec.state = XSDFEC_NEEDS_RESET)
        => /\ pc' # "idle" => pc' \in ResetCommands
           /\ GateReturns /\ last' \notin ResetCommands
              => /\ ret' = -EPERM
                 /\ hwlog' = <<>>
                 /\ xsdfec' = xsdfec
                 /\ regs' = regs ]_vars

\* C1 happens: start was turned away with -EPERM in XSDFEC_NEEDS_RESET
C1_Witness ==
    /\ xsdfec.state = XSDFEC_NEEDS_RESET
    /\ pc = "idle"
    /\ last = "XSDFEC_START_DEV"
    /\ ret = -EPERM

\* C2: when the interrupt thread runs with multi-bit error bits in the ECC
\* status register, or else with error bits in the interrupt status
\* register, the state becomes XSDFEC_NEEDS_RESET whatever it was, and the
\* matching counter (uecc_count, resp. isr_err_count) grows by the number
\* of those bits.
C2_FatalInterrupt ==
    [][ IrqRuns
        => LET mbe == BitAnd(regs[XSDFEC_ECC_ISR_ADDR], XSDFEC_ECC_ISR_MBE)
               isr == BitAnd(regs[XSDFEC_ISR_ADDR], XSDFEC_ISR_MASK)
           IN  /\ mbe # 0
                  => /\ xsdfec'.state = XSDFEC_NEEDS_RESET
                     /\ xsdfec'.uecc_count
                            = xsdfec.uecc_count + hweight32(mbe)
               /\ mbe = 0 /\ isr # 0
                  => /\ xsdfec'.state = XSDFEC_NEEDS_RESET
                     /\ xsdfec'.isr_err_count
                            = xsdfec.isr_err_count + hweight32(isr) ]_vars

\* C2 happens: the interrupt thread has counted two multi-bit errors and
\* left the device in XSDFEC_NEEDS_RESET
C2_Witness ==
    /\ last = "irq"
    /\ ret = IRQ_HANDLED
    /\ xsdfec.state = XSDFEC_NEEDS_RESET
    /\ xsdfec.uecc_count = 2

\* C3: once the state is XSDFEC_NEEDS_RESET, the only step that changes it
\* is set_default_config returning, to XSDFEC_INIT; a start or a stop that
\* passed the gate before the fatal interrupt does not replace it.
C3_NeedsResetTerminal ==
    [][ xsdfec.state = XSDFEC_NEEDS_RESET
        => \/ xsdfec'.state = XSDFEC_NEEDS_RESET
           \/ /\ last' = "XSDFEC_SET_DEFAULT_CONFIG"
              /\ xsdfec'.state = XSDFEC_INIT ]_vars

C5_StartSucceeds ==
    [][ ( /\ Returns("XSDFEC_START_DEV")
          /\ xsdfec.state \in { XSDFEC_INIT, XSDFEC_STOPPED }
          /\ xsdfec.config.code # XSDFEC_CODE_INVALID
          /\ BitAnd(regs[XSDFEC_FEC_CODE_ADDR], 1) = xsdfec.config.code - 1
          /\ xsdfec.config.order # XSDFEC_INVALID_ORDER )
        => /\ ret' = 0
           /\ RegWrites(hwlog')
                  = << LogEntry("regwrite", XSDFEC_AXIS_ENABLE_ADDR,
                                XSDFEC_AXIS_ENABLE_MASK, FALSE),
                       LogEntry("regwrite", XSDFEC_CODE_WR_PROTECT_ADDR,
                                XSDFEC_WRITE_PROTECT_ENABLE, FALSE),
                       LogEntry("regwrite", XSDFEC_AXI_WR_PROTECT_ADDR,
                                XSDFEC_WRITE_PROTECT_ENABLE, FALSE) >>
           /\ regs'[XSDFEC_AXIS_ENABLE_ADDR] = XSDFEC_AXIS_ENABLE_MASK
           /\ regs'[XSDFEC_CODE_WR_PROTECT_ADDR] = XSDFEC_WRITE_PROTECT_ENABLE
           /\ regs'[XSDFEC_AXI_WR_PROTECT_ADDR] = XSDFEC_WRITE_PROTECT_ENABLE
           /\ xsdfec'.wr_protect
           /\ xsdfec'.state = XSDFEC_STARTED ]_vars

\* C5 happens: start has returned 0 after set_order, the device is started
\* and the streams are enabled
C5_Witness ==
    /\ last = "XSDFEC_START_DEV"
    /\ ret = 0
    /\ xsdfec.state = XSDFEC_STARTED
    /\ xsdfec.config.order = XSDFEC_OUT_OF_ORDER
    /\ regs[XSDFEC_AXIS_ENABLE_ADDR] = XSDFEC_AXIS_ENABLE_MASK

\* C6: stop in XSDFEC_INIT, XSDFEC_STARTED or XSDFEC_STOPPED returns 0 and
\* ends in XSDFEC_STOPPED with the flag clear, both protection registers
\* written to XSDFEC_WRITE_PROTECT_DISABLE and the stream-enable bits clear
\* in the register.
C6_Stop ==
    [][ ( /\ Returns("XSDFEC_STOP_DEV")
          /\ xsdfec.state
                 \in { XSDFEC_INIT, XSDFEC_STARTED, XSDFEC_STOPPED } )
        => /\ ret' = 0
           /\ xsdfec'.state = XSDFEC_STOPPED
           /\ ~xsdfec'.wr_protect
           /\ \A a \in { XSDFEC_CODE_WR_PROTECT_ADDR,
                         XSDFEC_AXI_WR_PROTECT_ADDR } :
                  /\ regs'[a] = XSDFEC_WRITE_PROTECT_DISABLE
                  /\ \E i \in 1..Len(hwlog') :
                         hwlog'[i] = LogEntry("regwrite", a,
                                              XSDFEC_WRITE_PROTECT_DISABLE,
                                              FALSE)
           /\ BitAnd(regs'[XSDFEC_AXIS_ENABLE_ADDR],
                     XSDFEC_AXIS_ENABLE_MASK) = 0 ]_vars

\* C6 happens: stop has returned 0 on a device whose streams it found
\* enabled, and the device is stopped
C6_Witness ==
    /\ last = "XSDFEC_STOP_DEV"
    /\ ret = 0
    /\ xsdfec.state = XSDFEC_STOPPED
    /\ \E i \in 1..Len(hwlog) :
           hwlog[i] = LogEntry("regread", XSDFEC_AXIS_ENABLE_ADDR,
                               XSDFEC_AXIS_ENABLE_MASK, FALSE)

\* the argument is one xsdfec_set_order / xsdfec_set_bypass accepts
ValidOrder(order) ==
    order > XSDFEC_INVALID_ORDER /\ order < XSDFEC_ORDER_MAX

ValidBypass(bypass) == bypass <= 1

\* set_order and set_bypass outside XSDFEC_STARTED, as C7 has them: with a
\* valid argument they return 0 in XSDFEC_INIT and XSDFEC_STOPPED, and
\* set_order records the order
C7_NotStarted ==
    /\ ( /\ Returns("XSDFEC_SET_ORDER")
         /\ xsdfec.state \in { XSDFEC_INIT, XSDFEC_STOPPED }
         /\ ValidOrder(uin'.value) )
       => /\ ret' = 0
          /\ xsdfec'.config.order = uin'.value
    /\ ( /\ Returns("XSDFEC_SET_BYPASS")
         /\ xsdfec.state \in { XSDFEC_INIT, XSDFEC_STOPPED }
         /\ ValidBypass(uin'.value) )
       => ret' = 0

\* set_order or set_bypass returns in this step, called in XSDFEC_STARTED
C7_InStarted ==
    /\ Returns("XSDFEC_SET_ORDER") \/ Returns("XSDFEC_SET_BYPASS")
    /\ xsdfec.state = XSDFEC_STARTED

\* C7 as amended: in XSDFEC_STARTED set_order and set_bypass fail, with
\* -EIO when the argument is valid and with -EINVAL when it is out of
\* range (the range is tested first), call xsdfec_regwrite on nothing and
\* leave the order as it was; in XSDFEC_INIT and XSDFEC_STOPPED with a
\* valid argument they return 0 and set_order records the order.
C7_OrderBypassAmended ==
    [][ /\ C7_InStarted
           => /\ ret' = IF last' = "XSDFEC_SET_ORDER"
                        THEN (IF ValidOrder(uin'.value)
                              THEN -EIO ELSE -EINVAL)
                        ELSE (IF ValidBypass(uin'.value)
                              THEN -EIO ELSE -EINVAL)
              /\ RegWrites(hwlog') = <<>>
              /\ regs' = regs
              /\ xsdfec'.config.order = xsdfec.config.order
        /\ C7_NotStarted ]_vars

\* C7 as stated: in XSDFEC_STARTED set_order and set_bypass fail with the
\* state error, -EIO, call xsdfec_regwrite on nothing and leave the order
\* as it was; in XSDFEC_INIT and XSDFEC_STOPPED with a valid argument they
\* return 0 and set_order records the order.
C7_OrderBypassAsStated ==
    [][ /\ C7_InStarted
           => /\ ret' = -EIO
              /\ RegWrites(hwlog') = <<>>
              /\ regs' = regs
              /\ xsdfec'.config.order = xsdfec.config.order
        /\ C7_NotStarted ]_vars

\* C7 happens: set_bypass was refused with -EIO on a started device
C7_Witness ==
    /\ last = "XSDFEC_SET_BYPASS"
    /\ ret = -EIO
    /\ uin.value = 1
    /\ xsdfec.state = XSDFEC_STARTED
    /\ regs[XSDFEC_BYPASS_ADDR] = 0

\* C8: a step that begins and ends in XSDFEC_STARTED leaves the configured
\* order and the configured code as they were.
C8_ConfigFrozenWhileStarted ==
    [][ (xsdfec.state = XSDFEC_STARTED /\ xsdfec'.state = XSDFEC_STARTED)
        => /\ xsdfec'.config.order = xsdfec.config.order
           /\ xsdfec'.config.code = xsdfec.config.code ]_vars

\* C8 happens: set_order was called with a valid order other than the
\* configured one on a started device, which is still started
C8_Witness ==
    /\ last = "XSDFEC_SET_ORDER"
    /\ ret = -EIO
    /\ ValidOrder(uin.value)
    /\ uin.value # xsdfec.config.order
    /\ xsdfec.state = XSDFEC_STARTED

\* C9: a call of xsdfec_regwrite made while the write-protect flag is set
\* changes nothing: in every step, of a command or of the interrupt
\* thread, a register that was the target only of such calls holds the
\* value it held, and when every call of the step was such a call the
\* whole register window is as it was.
C9_ProtectedWritesDropped ==
    [][ LET w == RegWrites(hwlog')
        IN  /\ \A i \in 1..Len(w) :
                   ( /\ w[i].addr \in RegSpace
                     /\ \A j \in 1..Len(w) :
                            w[j].addr = w[i].addr => w[j].wr_protect )
                   => regs'[w[i].addr] = regs[w[i].addr]
            /\ (w # <<>> /\ \A i \in 1..Len(w) : w[i].wr_protect)
               => regs' = regs ]_vars

\* C9 happens: the interrupt thread, on a protected device, called
\* xsdfec_regwrite to clear the ECC status register, which still holds its
\* error bits
C9_Witness ==
    /\ last = "irq"
    /\ xsdfec.wr_protect
    /\ regs[XSDFEC_ECC_ISR_ADDR] # 0
    /\ \E i \in 1..Len(hwlog) :
           hwlog[i] = LogEntry("regwrite", XSDFEC_ECC_ISR_ADDR, 0, TRUE)

\* C10: raising the protection on an unprotected device (start) writes the
\* code protection register, then the AXI one, both before the flag is set;
\* lowering it on a protected device (stop) clears the flag, then writes
\* the AXI register, then the code one; in both directions the two writes
\* reach the registers.
C10_ProtectOrder ==
    [][ /\ ( /\ Returns("XSDFEC_START_DEV")
             /\ ret' = 0
             /\ ~xsdfec.wr_protect )
           => /\ ProtectWrites(hwlog')
                     = << LogEntry("regwrite", XSDFEC_CODE_WR_PROTECT_ADDR,
                                   XSDFEC_WRITE_PROTECT_ENABLE, FALSE),
                          LogEntry("regwrite", XSDFEC_AXI_WR_PROTECT_ADDR,
                                   XSDFEC_WRITE_PROTECT_ENABLE, FALSE) >>
              /\ xsdfec'.wr_protect
              /\ regs'[XSDFEC_CODE_WR_PROTECT_ADDR]
                     = XSDFEC_WRITE_PROTECT_ENABLE
              /\ regs'[XSDFEC_AXI_WR_PROTECT_ADDR]
                     = XSDFEC_WRITE_PROTECT_ENABLE
        /\ ( /\ Returns("XSDFEC_STOP_DEV")
             /\ xsdfec.wr_protect )
           => /\ ProtectWrites(hwlog')
                     = << LogEntry("regwrite", XSDFEC_AXI_WR_PROTECT_ADDR,
                                   XSDFEC_WRITE_PROTECT_DISABLE, FALSE),
                          LogEntry("regwrite", XSDFEC_CODE_WR_PROTECT_ADDR,
                                   XSDFEC_WRITE_PROTECT_DISABLE, FALSE) >>
              /\ ~xsdfec'.wr_protect
              /\ regs'[XSDFEC_CODE_WR_PROTECT_ADDR]
                     = XSDFEC_WRITE_PROTECT_DISABLE
              /\ regs'[XSDFEC_AXI_WR_PROTECT_ADDR]
                     = XSDFEC_WRITE_PROTECT_DISABLE ]_vars

\* C10 happens: stop has lowered the protection start had raised, the AXI
\* register first
C10_Witness ==
    /\ last = "XSDFEC_STOP_DEV"
    /\ ~xsdfec.wr_protect
    /\ Len(hwlog) >= 2
    /\ hwlog[1] = LogEntry("regwrite", XSDFEC_AXI_WR_PROTECT_ADDR,
                           XSDFEC_WRITE_PROTECT_DISABLE, FALSE)
    /\ hwlog[2] = LogEntry("regwrite", XSDFEC_CODE_WR_PROTECT_ADDR,
                           XSDFEC_WRITE_PROTECT_DISABLE, FALSE)
    /\ \E i \in 1..Len(hwlog) :
           hwlog[i] = LogEntry("regread", XSDFEC_AXIS_ENABLE_ADDR,
                               XSDFEC_AXIS_ENABLE_MASK, FALSE)
    /\ xsdfec.config.order = XSDFEC_MAINTAIN_ORDER

----------------------------------------------------------------------------
(* Properties of the LDPC tables and code registers.  Those that speak of  *)
(* one function are stated of the function applied to the machine of the   *)
(* current state.                                                          *)

TableKinds == { "sc", "la", "qc" }

TableBase(kind) ==
    CASE kind = "sc" -> XSDFEC_LDPC_SC_TABLE_ADDR_BASE
      [] kind = "la" -> XSDFEC_LDPC_LA_TABLE_ADDR_BASE
      [] kind = "qc" -> XSDFEC_LDPC_QC_TABLE_ADDR_BASE

TableDepth(kind) ==
    CASE kind = "sc" -> XSDFEC_SC_TABLE_DEPTH
      [] kind = "la" -> XSDFEC_LA_TABLE_DEPTH
      [] kind = "qc" -> XSDFEC_QC_TABLE_DEPTH

TableWrite(kind, m, offset, ptr, len) ==
    CASE kind = "sc" -> xsdfec_sc_table_write(m, offset, ptr, len)
      [] kind = "la" -> xsdfec_la_table_write(m, offset, ptr, len)
      [] kind = "qc" -> xsdfec_qc_table_write(m, offset, ptr, len)

TableCollect(kind, m, offset, len) ==
    CASE kind = "sc" -> xsdfec_collect_sc_table(m, offset, len)
      [] kind = "la" -> xsdfec_collect_la_table(m, offset, len)
      [] kind = "qc" -> xsdfec_collect_qc_table(m, offset, len)

\* the addresses of a log, in order
Addresses(log) == [i \in 1..Len(log) |-> log[i].addr]

\* base + (offset + i) * 4 for i < len, as numbers (no 32-bit wrap)
WindowWords(base, offset, len) ==
    [i \in 1..len |-> base + 4 * (offset + (i - 1))]

\* offsets and lengths around the end of each table (255, 1023 and 8191
\* words), and an offset whose fourfold does not fit 32 bits
TableOffsets == { 0, 1, 254, 255, 1022, 1023, 8190, 8191, 1073741824 }
TableLengths == 0..2
TablePayload == <<21, 22>>

\* C11: for each of the three tables and every offset and length, when
\* (offset + length) * 4 is greater than the depth of the table the write
\* and the collect function return -EINVAL and call neither xsdfec_regwrite
\* nor xsdfec_regread; when it is at most the depth they access exactly the
\* words base + (offset + i) * 4, i < length, in order.
C11_TableBounds ==
    \A kind \in TableKinds, offset \in TableOffsets, len \in TableLengths :
        LET w == TableWrite(kind, M, offset, TablePayload, len)
            r == TableCollect(kind, M, offset, len)
            words == WindowWords(TableBase(kind), offset, len)
        IN  IF offset + len > TableDepth(kind) \div 4
            THEN /\ w.err = -EINVAL
                 /\ w.m = M
                 /\ r.err = -EINVAL
                 /\ r.m = M
            ELSE /\ w.err >= 0
                 /\ Addresses(w.m.log) = words
                 /\ \A i \in 1..len : w.m.log[i].op = "regwrite"
                 /\ r.err = 0
                 /\ Addresses(r.m.log) = words
                 /\ \A i \in 1..len : r.m.log[i].op = "regread"

\* descriptors with every field inside its declared width, a code id whose
\* registers exist and table windows inside the tables
ValidCodes ==
    { LdpcGood,
      [LdpcGood EXCEPT !.code_id = 1, !.k = 0, !.no_packing = 0, !.nm = 0,
                       !.nmqc = 0, !.norm_type = 0, !.no_final_parity = 0,
                       !.max_schedule = 0, !.sc_off = 0, !.la_off = 0,
                       !.qc_off = 0] }

RoundTripFields ==
    { "n", "k", "psize", "no_packing", "nm", "nlayers", "nmqc", "norm_type",
      "special_qc", "no_final_parity", "max_schedule",
      "sc_table", "la_table", "qc_table" }

\* C12: while the configured code is LDPC, for every valid descriptor d,
\* add_ldpc of d returns 0 and get_ldpc_code_params that follows it, for the
\* code id of d and with the nlayers and nqc of d, returns 0 and copies out
\* the n, k, psize, no_packing, nm, nlayers, nmqc, norm_type, special_qc,
\* no_final_parity, max_schedule and the sc, la and qc tables of d.
C12_RoundTrip ==
    \A d \in ValidCodes :
        xsdfec.config.code = XSDFEC_LDPC_CODE
        => LET a == xsdfec_add_ldpc(M, d, 0)
               g == xsdfec_get_ldpc_code_params(
                        Machine(a.m.dev, a.m.regs, <<>>),
                        LdpcQuery(d.code_id, d.nlayers, d.nqc), 0, 0)
           IN  /\ a.err = 0
               /\ g.err = 0
               /\ g.out # NoData
               /\ \A f \in RoundTripFields : g.out.params[f] = d[f]


----------------------------------------------------------------------------
(* Properties of add_ldpc_code and get_ldpc_code. *)

\* C13: XSDFEC_ADD_LDPC_CODE_PARAMS invoked while the configured code is
\* Turbo is rejected: it returns an error (any value other than 0, success),
\* calls xsdfec_regwrite for no register and no table word, leaves the
\* registers as they were and does not change the write-protect flag.
C13_AddRejectedUnderTurbo ==
    [][(/\ Returns("XSDFEC_ADD_LDPC_CODE_PARAMS")
        /\ xsdfec.config.code = XSDFEC_TURBO_CODE)
       => /\ ret' # 0
          /\ RegWrites(hwlog') = <<>>
          /\ regs' = regs
          /\ xsdfec'.wr_protect = xsdfec.wr_protect]_vars

\* the descriptor an XSDFEC_ADD_LDPC_CODE_PARAMS call was given
AddedCode == uin'.value

\* the words the seven programming steps of add_ldpc_code address, in
\* order: registers 0 to 3 of the code, then the sc, la and qc windows
AddStepWords(ldpc) ==
    << << XSDFEC_LDPC_CODE_REG0_ADDR_BASE + 16 * ldpc.code_id >>,
       << XSDFEC_LDPC_CODE_REG1_ADDR_BASE + 16 * ldpc.code_id >>,
       << XSDFEC_LDPC_CODE_REG2_ADDR_BASE + 16 * ldpc.code_id >>,
       << XSDFEC_LDPC_CODE_REG3_ADDR_BASE + 16 * ldpc.code_id >>,
       WindowWords(XSDFEC_LDPC_SC_TABLE_ADDR_BASE, ldpc.sc_off, ldpc.nlayers),
       WindowWords(XSDFEC_LDPC_LA_TABLE_ADDR_BASE, 4 * ldpc.la_off,
                   ldpc.nlayers),
       WindowWords(XSDFEC_LDPC_QC_TABLE_ADDR_BASE, 4 * ldpc.qc_off,
                   ldpc.nqc) >>

\* the words of the first k steps, in order
RECURSIVE FirstSteps(_, _)
FirstSteps(steps, k) ==
    IF k = 0 THEN <<>> ELSE FirstSteps(steps, k - 1) \o steps[k]

\* step i of add_ldpc_code alone, on machine m
AddStep(i, m, ldpc) ==
    CASE i = 1 -> xsdfec_reg0_write(m, ldpc.n, ldpc.k, ldpc.code_id)
      [] i = 2 -> xsdfec_reg1_write(m, ldpc.psize, ldpc.no_packing, ldpc.nm,
                                    ldpc.code_id)
      [] i = 3 -> xsdfec_reg2_write(m, ldpc.nlayers, ldpc.nmqc,
                                    ldpc.norm_type, ldpc.special_qc,
                                    ldpc.no_final_parity, ldpc.max_schedule,
                                    ldpc.code_id)
      [] i = 4 -> xsdfec_reg3_write(m, ldpc.sc_off, ldpc.la_off, ldpc.qc_off,
                                    ldpc.code_id)
      [] i = 5 -> xsdfec_sc_table_write(m, ldpc.sc_off, ldpc.sc_table,
                                        ldpc.nlayers)
      [] i = 6 -> xsdfec_la_table_write(m, Mul4Sum(ldpc.la_off, 0),
                                        ldpc.la_table, ldpc.nlayers)
      [] i = 7 -> xsdfec_qc_table_write(m, Mul4Sum(ldpc.qc_off, 0),
                                        ldpc.qc_table, ldpc.nqc)

\* the window after the writes of a log have landed, in order
RECURSIVE Replay(_, _)
Replay(window, log) ==
    IF log = <<>> THEN window
    ELSE Replay(iowrite32(window, Head(log).addr, Head(log).value), Tail(log))

\* the two writes that lower write protection
ProtectionLowered ==
    << XSDFEC_AXI_WR_PROTECT_ADDR, XSDFEC_CODE_WR_PROTECT_ADDR >>

\* C15: XSDFEC_ADD_LDPC_CODE_PARAMS on a device whose code is not Turbo
\* first lowers write protection if it is raised, then writes in the fixed
\* order register 0, 1, 2, 3, sc table, la table, qc table.  Its writes are
\* exactly those of the first k steps; with k = 7 it returns 0, with k < 7
\* step k + 1 is the one that fails and the call returns that step's error
\* and writes nothing of the later steps.  Every write made has landed in
\* the registers and stays there (nothing is rolled back), and protection
\* is down afterwards.
C15_AddOrderNoRollback ==
    [][(/\ Returns("XSDFEC_ADD_LDPC_CODE_PARAMS")
        /\ xsdfec.config.code # XSDFEC_TURBO_CODE
        /\ uin'.notcopied = 0)
       => LET steps == AddStepWords(AddedCode)
              lowered == IF xsdfec.wr_protect THEN ProtectionLowered
                         ELSE <<>>
          IN  /\ \E k \in 0..7 :
                    /\ Addresses(RegWrites(hwlog'))
                          = lowered \o FirstSteps(steps, k)
                    /\ k = 7 => ret' = 0
                    /\ k < 7 =>
                          /\ ret' < 0
                          /\ AddStep(k + 1, Machine(xsdfec', regs', <<>>),
                                     AddedCode).err = ret'
              /\ regs' = Replay(regs, RegWrites(hwlog'))
              /\ ~ xsdfec'.wr_protect]_vars

\* an add under raised protection has failed at the qc table, after the
\* protection writes, the four registers and the sc and la words
C15_Witness ==
    /\ last = "XSDFEC_ADD_LDPC_CODE_PARAMS"
    /\ ret = -EINVAL
    /\ Len(RegWrites(hwlog)) = 10
    /\ hwlog[1].addr = XSDFEC_AXI_WR_PROTECT_ADDR
    /\ regs[XSDFEC_LDPC_LA_TABLE_ADDR_BASE + 16] = 11

\* the calls of xsdfec_regwrite on descriptor registers and table words
\* (every register but the two protection registers), in order
CodeWrites(log) ==
    SelectSeq(log, LAMBDA e : /\ e.op = "regwrite"
                              /\ e.addr \notin { XSDFEC_CODE_WR_PROTECT_ADDR,
                                                 XSDFEC_AXI_WR_PROTECT_ADDR })

\* the declared lengths of a descriptor overrun one of the three tables at
\* its offset
Overruns(ldpc) ==
    \/ 4 * (ldpc.sc_off + ldpc.nlayers) > XSDFEC_SC_TABLE_DEPTH
    \/ 4 * (4 * ldpc.la_off + ldpc.nlayers) > XSDFEC_LA_TABLE_DEPTH
    \/ 4 * (4 * ldpc.qc_off + ldpc.nqc) > XSDFEC_QC_TABLE_DEPTH

\* C16: XSDFEC_ADD_LDPC_CODE_PARAMS with a descriptor whose nlayers or nqc
\* overruns one of the three tables at its offset writes no descriptor
\* register and no table word: the lengths are validated before the first
\* of these writes.
C16_LengthsValidatedFirst ==
    [][(/\ Returns("XSDFEC_ADD_LDPC_CODE_PARAMS")
        /\ uin'.notcopied = 0
        /\ Overruns(AddedCode))
       => CodeWrites(hwlog') = <<>>]_vars

\* the base and the high address of descriptor register block n
RegBase(n) ==
    CASE n = 1 -> XSDFEC_LDPC_CODE_REG0_ADDR_BASE
      [] n = 2 -> XSDFEC_LDPC_CODE_REG1_ADDR_BASE
      [] n = 3 -> XSDFEC_LDPC_CODE_REG2_ADDR_BASE
      [] n = 4 -> XSDFEC_LDPC_CODE_REG3_ADDR_BASE

RegHigh(n) ==
    CASE n = 1 -> XSDFEC_LDPC_CODE_REG0_ADDR_HIGH
      [] n = 2 -> XSDFEC_LDPC_CODE_REG1_ADDR_HIGH
      [] n = 3 -> XSDFEC_LDPC_CODE_REG2_ADDR_HIGH
      [] n = 4 -> XSDFEC_LDPC_CODE_REG3_ADDR_HIGH

\* the collector of descriptor register block n
RegCollect(n, m, code_id, ldpc_params) ==
    CASE n = 1 -> xsdfec_collect_ldpc_reg0(m, code_id, ldpc_params)
      [] n = 2 -> xsdfec_collect_ldpc_reg1(m, code_id, ldpc_params)
      [] n = 3 -> xsdfec_collect_ldpc_reg2(m, code_id, ldpc_params)
      [] n = 4 -> xsdfec_collect_ldpc_reg3(m, code_id, ldpc_params)

\* code ids on both sides of the end of the register blocks, and the ends
\* of the range a code id is documented to have
CodeIds == { 0, 1, 31, 32, 33, 511 }

\* the address of register n of code id is past the block's high address
PastBlock(n, id) == RegBase(n) + XSDFEC_LDPC_REG_JUMP * id > RegHigh(n)

\* each of the four writers and the four collectors, alone: past the block
\* it fails with -EINVAL and touches nothing; inside it, it accesses the
\* one word base + code_id * stride.  All four blocks admit the same ids.
RegisterAddressChecked ==
    \A n \in 1..4, id \in CodeIds :
        LET w == AddStep(n, M, [LdpcGood EXCEPT !.code_id = id])
            r == RegCollect(n, M, id, LdpcQuery(id, 2, 2))
            addr == RegBase(n) + XSDFEC_LDPC_REG_JUMP * id
        IN  /\ PastBlock(n, id) <=> PastBlock(1, id)
            /\ IF PastBlock(n, id)
               THEN /\ w.err = -EINVAL /\ w.m = M
                    /\ r.err = -EINVAL /\ r.m = M
               ELSE /\ w.err = 0 /\ Addresses(w.m.log) = << addr >>
                    /\ w.m.log[1].op = "regwrite"
                    /\ r.err = 0 /\ Addresses(r.m.log) = << addr >>
                    /\ r.m.log[1].op = "regread"

\* an add or a get of a code id past the register blocks returns, on a
\* device whose code is not Turbo, with its argument copied in
AddOutOfRange ==
    /\ Returns("XSDFEC_ADD_LDPC_CODE_PARAMS")
    /\ xsdfec.config.code # XSDFEC_TURBO_CODE
    /\ uin'.notcopied = 0
    /\ PastBlock(1, uin'.value.code_id)

GetOutOfRange ==
    /\ Returns("XSDFEC_GET_LDPC_CODE_PARAMS")
    /\ xsdfec.config.code # XSDFEC_TURBO_CODE
    /\ uin'.notcopied = 0
    /\ PastBlock(1, uin'.value.code_id)

\* C17 (as stated): each descriptor register write or read whose address
\* base + code_id * stride is past the block's high address fails with
\* -EINVAL before any hardware access, and add_ldpc_code and get_ldpc_code
\* with such a code id fail with -EINVAL with nothing written or read: no
\* call of xsdfec_regwrite or xsdfec_regread at all.
C17_AddressCheckAsStated ==
    [][/\ RegisterAddressChecked
       /\ AddOutOfRange => (ret' = -EINVAL /\ hwlog' = <<>>)
       /\ GetOutOfRange => (ret' = -EINVAL /\ hwlog' = <<>>)]_vars

\* C17 (amended): each descriptor register write or read whose address is
\* past the block's high address fails with -EINVAL before any hardware
\* access.  get_ldpc_code with such a code id fails with -EINVAL with
\* nothing read or written and nothing returned to the caller.
\* add_ldpc_code with such a code id fails with -EINVAL and writes no
\* descriptor register and no table word, but it has lowered write
\* protection first if it was raised: its only register accesses are then
\* the two protection writes, and the flag is left down.
C17_AddressCheckAmended ==
    [][/\ RegisterAddressChecked
       /\ AddOutOfRange =>
             /\ ret' = -EINVAL
             /\ CodeWrites(hwlog') = <<>>
             /\ Addresses(hwlog') = IF xsdfec.wr_protect
                                    THEN ProtectionLowered ELSE <<>>
             /\ ~ xsdfec'.wr_protect
       /\ GetOutOfRange =>
             /\ ret' = -EINVAL
             /\ hwlog' = <<>>
             /\ uout' = NoData
             /\ xsdfec' = xsdfec /\ regs' = regs]_vars

\* an add of code id 32 on a started device has failed after lowering
\* write protection
C17_Witness ==
    /\ last = "XSDFEC_ADD_LDPC_CODE_PARAMS"
    /\ ret = -EINVAL
    /\ uin.value.code_id = 32
    /\ Addresses(hwlog) = ProtectionLowered
    /\ xsdfec.state = XSDFEC_STARTED
    /\ ~ xsdfec.wr_protect

\* the code ids the descriptor is documented to have
DocumentedCodeIds == 0..511

\* C18: every code id in 0..511 is legal: for each of them the address
\* test of each of the four descriptor register writers and collectors
\* passes, so each accesses its register and returns 0.
C18_AllCodeIdsLegal ==
    \A id \in DocumentedCodeIds, n \in 1..4 :
        /\ ~ PastBlock(n, id)
        /\ AddStep(n, M, [LdpcGood EXCEPT !.code_id = id]).err = 0
        /\ RegCollect(n, M, id, LdpcQuery(id, 2, 2)).err = 0


----------------------------------------------------------------------------
(* Properties of open and release. *)

\* the processes that hold the device open, and those whose open has been
\* refused and has still to give its count back and return
Holders == { p \in Procs : files[p] = "open" }
Refused == { p \in Procs : files[p] = "busy" }

\* C19: under every interleaving of opens and releases at most one process
\* holds the device.  An open entered while the device is held is refused,
\* and a refused open can always take its next step, returns -EBUSY and
\* leaves the holder as it was.  An open entered while no process holds the
\* device and no refused open is still in flight succeeds.
C19_OpenExclusive ==
    [][/\ Cardinality(Holders) <= 1
       /\ Cardinality(Holders') <= 1
       /\ \A p \in Procs :
             /\ (files[p] = "closed" /\ files'[p] # "closed"
                                     /\ Holders # {})
                => (files'[p] = "busy" /\ Holders' = Holders)
             /\ files[p] = "busy" => ENABLED OpenBusy(p)
             /\ (files[p] = "busy" /\ files'[p] # "busy")
                => /\ files'[p] = "closed"
                   /\ last' = "open" /\ ret' = -EBUSY
                   /\ Holders' = Holders
             /\ (files[p] = "closed" /\ files'[p] # "closed"
                                     /\ Holders = {} /\ Refused = {})
                => /\ files'[p] = "open"
                   /\ last' = "open" /\ ret' = 0]_vars

\* an open has returned -EBUSY while another process holds the device, and
\* a third process's refused open is still in flight
C19_Witness ==
    /\ last = "open"
    /\ ret = -EBUSY
    /\ Cardinality(Holders) = 1
    /\ Refused # {}


----------------------------------------------------------------------------
(* Properties of the statistics. *)

\* C20: XSDFEC_CLEAR_STATS is let through by the gate in every device
\* state, XSDFEC_NEEDS_RESET included, and its function returns 0 with the
\* three counters (isr_err_count, cecc_count, uecc_count) at zero and
\* nothing else changed: state, configuration and write-protect flag as
\* they were, the registers as they were, no register read or written.
C20_ClearStats ==
    [][/\ ~ (GateReturns /\ last' = "XSDFEC_CLEAR_STATS")
       /\ Returns("XSDFEC_CLEAR_STATS")
          => /\ ret' = 0
             /\ xsdfec' = [xsdfec EXCEPT !.isr_err_count = 0,
                                         !.cecc_count = 0,
                                         !.uecc_count = 0]
             /\ regs' = regs
             /\ hwlog' = <<>>]_vars

\* the counters have been cleared on a device that needs a reset
C20_Witness ==
    /\ last = "XSDFEC_CLEAR_STATS"
    /\ ret = 0
    /\ xsdfec.state = XSDFEC_NEEDS_RESET
    /\ xsdfec.isr_err_count = 0
    /\ xsdfec.cecc_count = 0
    /\ xsdfec.uecc_count = 0


----------------------------------------------------------------------------
(* Properties of what get_ldpc_code decodes and where the tables lie. *)

\* the accesses of a log to the words of one table, in order
TableAccesses(kind, log) ==
    SelectSeq(log, LAMBDA e : /\ e.addr >= TableBase(kind)
                              /\ e.addr <= TableBase(kind) + TableDepth(kind))

\* an XSDFEC_GET_LDPC_CODE_PARAMS call returns 0 with a descriptor
GetSucceeds ==
    /\ Returns("XSDFEC_GET_LDPC_CODE_PARAMS")
    /\ ret' = 0
    /\ uout' # NoData

\* C27: the sc_off, la_off and qc_off that XSDFEC_GET_LDPC_CODE_PARAMS
\* returns are bits 0-7, 8-15 and 16-23 of the value held by register 3 of
\* the requested code id.
C27_OffsetsFromRegister3 ==
    [][GetSucceeds
       => LET reg_value ==
                  ioread32(regs, XSDFEC_LDPC_CODE_REG3_ADDR_BASE
                                   + XSDFEC_LDPC_REG_JUMP
                                       * uin'.value.code_id)
              p == uout'.params
          IN  /\ p.sc_off = BitAnd(reg_value, 255)
              /\ p.la_off = BitAnd(Shr(reg_value, 8), 255)
              /\ p.qc_off = BitAnd(Shr(reg_value, 16), 255)]_vars

\* C28: XSDFEC_GET_LDPC_CODE_PARAMS reads as many sc words and as many la
\* words as the nlayers the caller supplied, and as many qc words as the
\* nqc the caller supplied.
C28_CallerSuppliedLengths ==
    [][GetSucceeds
       => /\ Len(TableAccesses("sc", hwlog')) = uin'.value.nlayers
          /\ Len(TableAccesses("la", hwlog')) = uin'.value.nlayers
          /\ Len(TableAccesses("qc", hwlog')) = uin'.value.nqc]_vars

\* C29: XSDFEC_ADD_LDPC_CODE_PARAMS, when it returns 0, has written each
\* table's words from table offset 4 * sc_off, 4 * la_off, 4 * qc_off of
\* its descriptor; XSDFEC_GET_LDPC_CODE_PARAMS, when it returns 0, has read
\* each table's words from 4 times the sc_off, la_off, qc_off it returns.
C29_TablesAtFourTimesOffset ==
    [][/\ (/\ Returns("XSDFEC_ADD_LDPC_CODE_PARAMS")
           /\ xsdfec.config.code # XSDFEC_TURBO_CODE
           /\ uin'.notcopied = 0
           /\ ret' = 0)
          => /\ Addresses(TableAccesses("sc", hwlog'))
                   = WindowWords(XSDFEC_LDPC_SC_TABLE_ADDR_BASE,
                                 4 * AddedCode.sc_off, AddedCode.nlayers)
             /\ Addresses(TableAccesses("la", hwlog'))
                   = WindowWords(XSDFEC_LDPC_LA_TABLE_ADDR_BASE,
                                 4 * AddedCode.la_off, AddedCode.nlayers)
             /\ Addresses(TableAccesses("qc", hwlog'))
                   = WindowWords(XSDFEC_LDPC_QC_TABLE_ADDR_BASE,
                                 4 * AddedCode.qc_off, AddedCode.nqc)
       /\ GetSucceeds
          => \A kind \in TableKinds :
                 LET read == TableAccesses(kind, hwlog')
                     off == CASE kind = "sc" -> uout'.params.sc_off
                              [] kind = "la" -> uout'.params.la_off
                              [] kind = "qc" -> uout'.params.qc_off
                 IN  Addresses(read)
                         = WindowWords(TableBase(kind), 4 * off,
                                       Len(read))]_vars

\* C30: when the copy of the descriptor from the caller fails,
\* XSDFEC_ADD_LDPC_CODE_PARAMS and XSDFEC_GET_LDPC_CODE_PARAMS return an
\* error (a negative value: not 0, not a count of bytes) and access no
\* register; when the copy of the result to the caller fails,
\* XSDFEC_GET_LDPC_CODE_PARAMS returns an error.
C30_CopyFailureIsAnError ==
    [][/\ (/\ Returns("XSDFEC_ADD_LDPC_CODE_PARAMS")
           /\ uin'.notcopied # 0)
          => (ret' < 0 /\ hwlog' = <<>>)
       /\ (/\ Returns("XSDFEC_GET_LDPC_CODE_PARAMS")
           /\ xsdfec.config.code # XSDFEC_TURBO_CODE
           /\ uin'.notcopied # 0)
          => (ret' < 0 /\ hwlog' = <<>>)
       /\ \A query \in LdpcLookups, notcopied \in NotCopied \ {0} :
              (/\ xsdfec.config.code # XSDFEC_TURBO_CODE
               /\ xsdfec_get_ldpc_code_params(M, query, 0, 0).err = 0)
              => xsdfec_get_ldpc_code_params(M, query, 0,
                                             notcopied).err < 0]_vars


----------------------------------------------------------------------------
(* Properties of the interrupt thread. *)

\* the places of a log where op was called on addr
Calls(log, op, addr) ==
    { i \in 1..Len(log) : log[i].op = op /\ log[i].addr = addr }

\* the first and the last of them (0 when there is none)
FirstCall(log, op, addr) ==
    IF Calls(log, op, addr) = {} THEN 0
    ELSE CHOOSE i \in Calls(log, op, addr) :
             \A j \in Calls(log, op, addr) : i <= j

LastCall(log, op, addr) ==
    IF Calls(log, op, addr) = {} THEN 0
    ELSE CHOOSE i \in Calls(log, op, addr) :
             \A j \in Calls(log, op, addr) : j <= i

\* a call of xsdfec_regwrite that reached the register
Landed(log, i) == i > 0 /\ ~ log[i].wr_protect

\* C22: in every device state, XSDFEC_STARTED with its write protection
\* included, a run of the interrupt thread disables both interrupt classes
\* in the hardware (its writes to the two interrupt-disable registers reach
\* them) before it reads the two status registers, and enables both again
\* in the hardware (its writes to the two interrupt-enable registers reach
\* them, after everything else it does) before it returns, so that the
\* mask registers show both classes enabled afterwards.
C22_MaskedWhileHandling ==
    [][IrqRuns
       => LET log == hwlog'
              isr_off == FirstCall(log, "regwrite", XSDFEC_IDR_ADDR)
              ecc_off == FirstCall(log, "regwrite", XSDFEC_ECC_IDR_ADDR)
              ecc_read == FirstCall(log, "regread", XSDFEC_ECC_ISR_ADDR)
              isr_read == FirstCall(log, "regread", XSDFEC_ISR_ADDR)
              isr_on == LastCall(log, "regwrite", XSDFEC_IER_ADDR)
              ecc_on == LastCall(log, "regwrite", XSDFEC_ECC_IER_ADDR)
          IN  /\ Landed(log, isr_off) /\ Landed(log, ecc_off)
              /\ isr_off < ecc_read /\ ecc_off < ecc_read
              /\ ecc_read < isr_read
              /\ Landed(log, isr_on) /\ Landed(log, ecc_on)
              /\ \A i \in 1..Len(log) :
                     (log[i].op = "regwrite" /\ i \notin {isr_on, ecc_on})
                     => (i < isr_on /\ i < ecc_on)
              /\ BitAnd(regs'[XSDFEC_IMR_ADDR], XSDFEC_ISR_MASK) = 0
              /\ BitAnd(regs'[XSDFEC_ECC_IMR_ADDR], XSDFEC_ECC_ISR_MASK)
                     = 0]_vars

\* the error bits the interrupt thread finds in the two status registers
PendingMbe == BitAnd(regs[XSDFEC_ECC_ISR_ADDR], XSDFEC_ECC_ISR_MBE)
PendingIsr == BitAnd(regs[XSDFEC_ISR_ADDR], XSDFEC_ISR_MASK)
PendingSbe == BitAnd(regs[XSDFEC_ECC_ISR_ADDR], XSDFEC_ECC_ISR_SBE)

\* C25: a run of the interrupt thread takes one branch, in the order
\* multi-bit ECC errors, interrupt-status errors, single-bit ECC errors,
\* nothing, and changes at most one counter.  With multi-bit errors pending
\* only uecc_count changes; else with interrupt-status errors pending only
\* isr_err_count changes; else with single-bit errors pending cecc_count
\* grows by the number of their bits and the other two counters and the
\* state stay; else the run returns IRQ_NONE and the counters and the state
\* stay.
C25_OneBranchOneCounter ==
    [][IrqRuns
       => /\ PendingMbe # 0
             => /\ xsdfec'.uecc_count > xsdfec.uecc_count
                /\ xsdfec'.cecc_count = xsdfec.cecc_count
                /\ xsdfec'.isr_err_count = xsdfec.isr_err_count
          /\ (PendingMbe = 0 /\ PendingIsr # 0)
             => /\ xsdfec'.isr_err_count > xsdfec.isr_err_count
                /\ xsdfec'.cecc_count = xsdfec.cecc_count
                /\ xsdfec'.uecc_count = xsdfec.uecc_count
          /\ (PendingMbe = 0 /\ PendingIsr = 0 /\ PendingSbe # 0)
             => /\ xsdfec'.cecc_count
                       = xsdfec.cecc_count + hweight32(PendingSbe)
                /\ xsdfec'.uecc_count = xsdfec.uecc_count
                /\ xsdfec'.isr_err_count = xsdfec.isr_err_count
                /\ xsdfec'.state = xsdfec.state
                /\ ret' = IRQ_HANDLED
          /\ (PendingMbe = 0 /\ PendingIsr = 0 /\ PendingSbe = 0)
             => /\ ret' = IRQ_NONE
                /\ xsdfec'.cecc_count = xsdfec.cecc_count
                /\ xsdfec'.uecc_count = xsdfec.uecc_count
                /\ xsdfec'.isr_err_count = xsdfec.isr_err_count
                /\ xsdfec'.state = xsdfec.state]_vars

\* C26: the interrupt thread clears the status register whose bits chose
\* its branch: the interrupt status register on the interrupt-status
\* branch, the ECC status register on the two ECC branches; the bits it
\* handled read as zero once it has returned.
C26_HandledStatusCleared ==
    [][IrqRuns
       => /\ (PendingMbe = 0 /\ PendingIsr # 0)
             => BitAnd(regs'[XSDFEC_ISR_ADDR], XSDFEC_ISR_MASK) = 0
          /\ (PendingMbe # 0 \/ (PendingIsr = 0 /\ PendingSbe # 0))
             => BitAnd(regs'[XSDFEC_ECC_ISR_ADDR], XSDFEC_ECC_ISR_MASK)
                    = 0]_vars


----------------------------------------------------------------------------
(* Properties of set_default_config. *)

\* C24: set_default_config is let through and returns 0 in every state,
\* XSDFEC_NEEDS_RESET included.  It leaves the state XSDFEC_INIT, the
\* write-protect flag clear, config.order XSDFEC_INVALID_ORDER and every
\* other field of the device (code, the stream settings, the three counters)
\* as it was; its writes of XSDFEC_WRITE_PROTECT_DISABLE reach both
\* protection registers.  A second run from the state it leaves changes
\* neither the device nor the registers.  After it the gate turns no
\* command of the driver away, and start returns -EINVAL for as long as
\* config.order stays invalid.
C24_SetDefaultConfig ==
    [][ /\ (GateReturns /\ last' = "XSDFEC_SET_DEFAULT_CONFIG") => FALSE
        /\ Returns("XSDFEC_SET_DEFAULT_CONFIG")
           => LET log == hwlog'
                  after == Machine(xsdfec', regs', <<>>)
                  axi == LastCall(log, "regwrite", XSDFEC_AXI_WR_PROTECT_ADDR)
                  code == LastCall(log, "regwrite",
                                   XSDFEC_CODE_WR_PROTECT_ADDR)
              IN  /\ ret' = 0
                  /\ xsdfec' = [xsdfec EXCEPT
                                   !.state = XSDFEC_INIT,
                                   !.wr_protect = FALSE,
                                   !.config.order = XSDFEC_INVALID_ORDER]
                  /\ Landed(log, axi) /\ Landed(log, code)
                  /\ \A i \in 1..Len(ProtectWrites(log)) :
                         ProtectWrites(log)[i].value
                             = XSDFEC_WRITE_PROTECT_DISABLE
                  /\ regs'[XSDFEC_AXI_WR_PROTECT_ADDR]
                         = XSDFEC_WRITE_PROTECT_DISABLE
                  /\ regs'[XSDFEC_CODE_WR_PROTECT_ADDR]
                         = XSDFEC_WRITE_PROTECT_DISABLE
                  /\ xsdfec_set_default_config(after).err = 0
                  /\ xsdfec_set_default_config(after).m.dev = xsdfec'
                  /\ xsdfec_set_default_config(after).m.regs = regs'
                  /\ \A cmd \in Commands : GateError(xsdfec', cmd, "ok") = 0
                  /\ xsdfec_start(after).err = -EINVAL
                  /\ xsdfec_start(after).m.dev = xsdfec' ]_vars

\* set_default_config has returned on a device whose counters hold a fatal
\* error and on which start had been refused for want of an order
C24_Witness ==
    /\ last = "XSDFEC_SET_DEFAULT_CONFIG"
    /\ ret = 0
    /\ xsdfec.state = XSDFEC_INIT
    /\ xsdfec.isr_err_count + xsdfec.uecc_count > 0
    /\ Len(ProtectWrites(hwlog)) = 2

----------------------------------------------------------------------------
(* Properties of the wait queue. *)

\* the places of a log where the waiters were woken
Wakes(log) == Calls(log, "wake_up_interruptible", -1)

\* the interrupt thread finds a fatal error in the status registers
PendingFatal == PendingMbe # 0 \/ PendingIsr # 0

\* a run of the interrupt thread on a fatal error calls
\* wake_up_interruptible once, with the state already XSDFEC_NEEDS_RESET,
\* and every waiter parked on the queue is woken; a run on a correctable
\* error or on none does not call it and leaves every waiter where it was
FatalWakes ==
    [][IrqRuns
       => IF PendingFatal
          THEN /\ Cardinality(Wakes(hwlog')) = 1
               /\ \A i \in Wakes(hwlog') :
                      hwlog'[i].value = XSDFEC_NEEDS_RESET
               /\ xsdfec'.state = XSDFEC_NEEDS_RESET
               /\ \A w \in Waiters :
                      waitq'[w] = IF waitq[w] = "parked" THEN "woken"
                                  ELSE waitq[w]
          ELSE /\ Wakes(hwlog') = {}
               /\ waitq' = waitq]_vars

\* nothing but the interrupt thread calls wake_up_interruptible or takes a
\* waiter off the queue
OnlyIrqWakes ==
    [][~ IrqRuns
       => /\ Wakes(hwlog') = {}
          /\ \A w \in Waiters :
                 waitq[w] = "parked" => waitq'[w] = "parked"]_vars

\* a woken waiter comes to run xsdfec_poll again
WokenPolls == \A w \in Waiters : (waitq[w] = "woken") ~> (waitq[w] = "away")

\* a woken waiter's xsdfec_poll returns in this step
WokenReturns(w) == waitq[w] = "woken" /\ waitq'[w] = "away"

----------------------------------------------------------------------------
(* Properties of the counters under interleaving. *)

\* the three counters of a device structure
Tally(dev) ==
    [c \in Counters |-> dev[c]]

\* the device structures the other handlers would leave, were they run in
\* this state
OtherHandlers ==
    { xsdfec_start(M).m.dev, xsdfec_stop(M).m.dev,
      xsdfec_set_default_config(M).m.dev, xsdfec_is_active(M).m.dev,
      xsdfec_dev_release(xsdfec_dev_open(xsdfec).dev) }
    \cup { xsdfec_get_stats(M, n).m.dev : n \in NotCopied }
    \cup { xsdfec_get_status(M, n).m.dev : n \in NotCopied }
    \cup { xsdfec_get_config(M, n).m.dev : n \in NotCopied }
    \cup { xsdfec_get_turbo(M, n).m.dev : n \in NotCopied }
    \cup { xsdfec_set_order(M, o).m.dev : o \in Orders }
    \cup { xsdfec_set_bypass(M, b).m.dev : b \in Bypasses }
    \cup { xsdfec_set_irq(M, i, n).m.dev : i \in IrqArgs, n \in NotCopied }
    \cup { xsdfec_set_turbo(M, t, n).m.dev : t \in TurboArgs,
                                             n \in NotCopied }
    \cup { xsdfec_add_ldpc(M, l, n).m.dev : l \in LdpcCodes,
                                            n \in NotCopied }
    \cup { xsdfec_get_ldpc_code_params(M, q, n, 0).m.dev :
               q \in LdpcLookups, n \in NotCopied }

\* the interrupt thread run in one piece from a state where it is not
\* running, and its pieces run one after the other, leave the same device
\* structure and registers
PiecesAgree ==
    at.irq = "idle"
    => LET m == xsdfec_irq_thread_enter(M)
           ecc_err == xsdfec_regread(m, XSDFEC_ECC_ISR_ADDR)
           isr_err == xsdfec_regread(m, XSDFEC_ISR_ADDR)
           first == FirstCounter(ecc_err, isr_err)
           dev1 == IF first = "exit" THEN m.dev
                   ELSE [m.dev EXCEPT ![first] =
                            atomic_add_return(
                                Increment(first, ecc_err, isr_err), @)]
           dev2 == IF first = "uecc_count"
                   THEN [dev1 EXCEPT !.cecc_count =
                            atomic_add(
                                Increment("cecc_count", ecc_err, isr_err),
                                @)]
                   ELSE dev1
           r == xsdfec_irq_thread_exit([m EXCEPT !.dev = dev2],
                                       ecc_err, isr_err)
       IN  /\ r.m.dev = xsdfec_irq_thread(M).m.dev
           /\ r.m.regs = xsdfec_irq_thread(M).m.regs
           /\ r.err = xsdfec_irq_thread(M).err

\* the steps of the handlers on counter c: the interrupt thread adds to it,
\* clear_stats sets it, get_stats reads it
AddsTo(c) ==
    at.irq = c /\ at'.irq = NextCounter(c) /\ at'.ctl = at.ctl

Clears(c) ==
    /\ (at.ctl = "idle" /\ c = "isr_err_count") \/ at.ctl = c
    /\ at'.ctl = ClearAfter(c)
    /\ at'.irq = at.irq

Reads(c) ==
    /\ at.ctl = IF at.read = <<>> THEN "idle" ELSE "get"
    /\ c = StatsOrder[Len(at.read) + 1]
    /\ IF Len(at.read) + 1 = Len(StatsOrder)
       THEN at'.ctl = "idle" /\ last' = "XSDFEC_GET_STATS"
       ELSE at'.ctl = "get" /\ Len(at'.read) = Len(at.read) + 1
    /\ at'.irq = at.irq

\* C21: however the atomic operations of the interrupt thread, of
\* clear_stats and of get_stats interleave, each counter equals the sum of
\* the increments (bit counts of the status words) added to it since it was
\* last set to 0; a counter changes only in a step that adds to it, and then
\* by that bit count, or in a step of clear_stats that sets it to 0, so it
\* decreases only through clear_stats; get_stats changes none and reports
\* for each counter the value it has when read; and no other handler would
\* change a counter.
C21_CountersAtomic ==
    /\ [](\A c \in Counters : xsdfec[c] = at.added[StatsIndex(c)])
    /\ []PiecesAgree
    /\ [](\A dev \in OtherHandlers : Tally(dev) = Tally(xsdfec))
    /\ [][\A c \in Counters :
            /\ xsdfec'[c] # xsdfec[c]
               => \/ /\ AddsTo(c)
                     /\ xsdfec'[c]
                            = xsdfec[c]
                              + Increment(c, at.err[1], at.err[2])
                  \/ Clears(c) /\ xsdfec'[c] = 0
            /\ xsdfec'[c] < xsdfec[c] => Clears(c)
            /\ Reads(c)
               => /\ xsdfec' = xsdfec
                  /\ IF Len(at.read) + 1 = Len(StatsOrder)
                     THEN uout' = Stats(Append(at.read, xsdfec[c]))
                     ELSE at'.read = Append(at.read, xsdfec[c])
          ]_vars

\* the interrupt thread has added to uecc_count and still owes cecc_count
\* its increment, and clear_stats, begun after that addition, has set
\* uecc_count to 0 and not yet cecc_count
C21_Witness ==
    /\ at.irq = "cecc_count"
    /\ Increment("uecc_count", at.err[1], at.err[2]) > 0
    /\ Increment("cecc_count", at.err[1], at.err[2]) > 0
    /\ at.ctl = "cecc_count"
    /\ xsdfec.uecc_count = 0
    /\ xsdfec.cecc_count > 0

----------------------------------------------------------------------------
(* Write protection of a started device. *)

\* C31: in every reachable state, a device whose state is XSDFEC_STARTED has
\* its write-protect flag set, whatever control operations and interrupts
\* came before (xsdfec_add_ldpc and xsdfec_set_turbo on a started device
\* included)
C31_StartedIsProtected ==
    xsdfec.state = XSDFEC_STARTED => xsdfec.wr_protect

----------------------------------------------------------------------------
(* The turbo parameters read back. *)

\* what xsdfec_get_turbo would return on the device as it is after the step
TurboReadBack == xsdfec_get_turbo(Machine(xsdfec', regs', <<>>), 0)

\* C32: on a device whose code is not LDPC, for every scale in 0..15 and
\* alg in 0..1, xsdfec_get_turbo issued after a successful
\* xsdfec_set_turbo(scale, alg) succeeds and returns that scale and that alg
C32_TurboRoundTrip ==
    [][Returns("XSDFEC_SET_TURBO") /\ ret' = 0
       => /\ TurboReadBack.err = 0
          /\ TurboReadBack.out.scale = uin'.value.scale
          /\ TurboReadBack.out.alg = uin'.value.alg]_vars

----------------------------------------------------------------------------
(* The words a table access touches, for offsets up to 32 bits. *)

\* windows <<offset, len>>: at the start and at the end of each table (255,
\* 1023 and 8191 words), at offset 2^30, and running up to or across
\* offset 2^30, where the fourfold of offset + len wraps on a u32
TableWindows ==
    { <<0, 2>>, <<253, 2>>, <<254, 1>>, <<1021, 2>>, <<1022, 1>>,
      <<8189, 2>>, <<8190, 1>>, <<1073741824, 1>>, <<1073741824, 2>>,
      <<1073741823, 1>>, <<1073741823, 2>>, <<1073741822, 2>> }

\* the accesses of a log that reach the hardware: every read, and the
\* writes the write protection does not drop
Touched(log) ==
    SelectSeq(log, LAMBDA e : e.op = "regread"
                              \/ (e.op = "regwrite" /\ ~ e.wr_protect))

\* every word a log touches lies in the table: at its base or above and
\* below its depth
WithinTable(kind, log) ==
    \A i \in 1..Len(Touched(log)) :
        /\ Touched(log)[i].addr >= TableBase(kind)
        /\ Touched(log)[i].addr < TableBase(kind) + TableDepth(kind)

\* C33: for each of the three tables and every 32-bit offset and length, a
\* table write or collect that passes the test of 4 * (offset + length),
\* computed modulo 2^32, against the depth touches only words of that table
\* below its depth
C33_CheckedAccessInsideTable ==
    \A kind \in TableKinds, win \in TableWindows :
        LET w == TableWrite(kind, M, win[1], TablePayload, win[2])
            r == TableCollect(kind, M, win[1], win[2])
        IN  /\ w.err >= 0 => WithinTable(kind, w.m.log)
            /\ r.err = 0 => WithinTable(kind, r.m.log)

====
